---- MODULE Spec2Model ----
(***************************************************************************)
(* Round-resolution engine of ai4peace (core_v2): the research-strategy    *)
(* game master, its action catalog and the participant state, as a state   *)
(* machine.  Source: src/ai4peace/core_v2/research_strategy_game_mechanics *)
(* .py.  Quantities are integers; a rate r is a pair RateNum/RateDen and   *)
(* progress is counted in hundredths (100 = 1.0).                          *)
(***************************************************************************)
EXTENDS Integers, Sequences, FiniteSets, TLC

\* ------------------------------------------------------------------------
\* Bounds of the model (not program constants)
\* ------------------------------------------------------------------------
MaxMoves == 2           \* longest action list one proposal may carry
MaxEvents == 1          \* cap on the length of the public event log

\* ------------------------------------------------------------------------
\* Program constants
\* ------------------------------------------------------------------------
max_attempts == 3                   \* ResearchStrategyGameMaster.max_attempts
player_max_attempts == 3            \* ResearchStrategyPlayer.max_attempts
max_rounds == 3                     \* run_simulation
timestep_days == 90                 \* increment_round
research_progress_rate_base == 10   \* 0.1, in hundredths
research_progress_rate_max == 30    \* 0.3, in hundredths
research_human_scaling == 100       \* human per unit of progress rate
refund_rate_num == 1                \* CancelResearchProjectAction.refund_rate = 0.5
refund_rate_den == 2
invest_efficiency_num == 9          \* InvestCapitalAction.efficiency = 0.9
invest_efficiency_den == 10
sell_efficiency_num == 7            \* SellCapitalAction.efficiency = 0.7
sell_efficiency_den == 10
fundraise_efficiency_num == 8       \* FundraiseAction.efficiency = 0.8
fundraise_efficiency_den == 10
transfer_rate_num == 1              \* PoachTalentAction.transfer_rate = 0.1
transfer_rate_den == 10
max_transfer == 5                   \* PoachTalentAction.max_transfer
recent_actions_keep == 20           \* update_state keeps the last 20 entries
last_events_shown == 5              \* broadcasts carry the last 5 public events

\* ------------------------------------------------------------------------
\* Participants and elementary values
\* ------------------------------------------------------------------------
PlayerOrder == <<"P1", "P2">>       \* gamemaster.players, in list order
Players == {PlayerOrder[i] : i \in 1..Len(PlayerOrder)}
None == "None"

Min(a, b) == IF a < b THEN a ELSE b

\* AssetBalance: <<technical_capability, capital, human>>
AssetBalance(t, c, h) == [technical_capability |-> t, capital |-> c, human |-> h]
ZeroBalance == AssetBalance(0, 0, 0)

add(a, b) ==
  AssetBalance(a.technical_capability + b.technical_capability,
               a.capital + b.capital,
               a.human + b.human)

\* A variant of subtract with the operands swapped
subtract_swapped(a, b) ==
  AssetBalance(b.technical_capability - a.technical_capability,
               b.capital - a.capital, b.human - a.human)

subtract(a, b) ==
  AssetBalance(a.technical_capability - b.technical_capability,
               a.capital - b.capital,
               a.human - b.human)

\* ------------------------------------------------------------------------
\* AssetBalance components are Python floats (IEEE-754 doubles).  The game
\* runs of this model only meet whole numbers far below 2^53, where double
\* arithmetic is exact and add / subtract above are what the code computes.
\* For the arithmetic itself a non-negative whole-valued double below 2^55
\* is kept as two limbs: value = hi * 2^27 + lo.
\* ------------------------------------------------------------------------
limb == 134217728             \* 2^27
double_exact_hi == 67108864   \* 2^26: hi below this means value below 2^53

Double(hi, lo) == [hi |-> hi, lo |-> lo]
Normalise(hi, lo) == Double(hi + (lo \div limb), lo % limb)

\* Round a whole number to the nearest multiple of step, ties to the even multiple
RoundToStep(x, step) ==
  LET r == x.lo % step
      down == x.lo - r
  IN IF 2 * r < step THEN Normalise(x.hi, down)
     ELSE IF 2 * r > step THEN Normalise(x.hi, down + step)
     ELSE IF (down \div step) % 2 = 0 THEN Normalise(x.hi, down)
     ELSE Normalise(x.hi, down + step)

\* Round to the nearest double (53 significant bits), ties to even
RoundToDouble(x) ==
  IF x.hi < double_exact_hi THEN x
  ELSE IF x.hi < 2 * double_exact_hi THEN RoundToStep(x, 2)
  ELSE RoundToStep(x, 4)

\* float + float
double_add(x, y) == RoundToDouble(Normalise(x.hi + y.hi, x.lo + y.lo))

\* float - float, for x >= y
double_sub(x, y) ==
  RoundToDouble(IF x.lo >= y.lo THEN Double(x.hi - y.hi, x.lo - y.lo)
                ELSE Double(x.hi - y.hi - 1, x.lo + limb - y.lo))

\* AssetBalance.add on doubles
AssetBalance_add(a, b) ==
  AssetBalance(double_add(a.technical_capability, b.technical_capability),
               double_add(a.capital, b.capital),
               double_add(a.human, b.human))

\* A variant of AssetBalance.subtract that leaves human capital as it is
AssetBalance_subtract_keeping_human(a, b) ==
  AssetBalance(double_sub(a.technical_capability, b.technical_capability),
               double_sub(a.capital, b.capital),
               a.human)

\* AssetBalance.subtract on doubles
AssetBalance_subtract(a, b) ==
  AssetBalance(double_sub(a.technical_capability, b.technical_capability),
               double_sub(a.capital, b.capital),
               double_sub(a.human, b.human))

\* x * num / den, as the code's x * rate
\* A variant of Scale that ignores the rate (efficiency 1.0)
Unscaled(x, num, den) == x

Scale(x, num, den) == (x * num) \div den

\* Simulated date: days since 2024-01-01; the budget period is the year.
Year(d) == IF d < 366 THEN 2024 ELSE IF d < 731 THEN 2025 ELSE 2026

\* Budget: a dict from period to amount.  get(year, 0.0) on a missing key is 0;
\* a write creates the key.
BudgetGet(b, y) == IF y \in DOMAIN b THEN b[y] ELSE 0
BudgetSet(b, y, v) == [z \in (DOMAIN b) \cup {y} |-> IF z = y THEN v ELSE b[z]]

\* ------------------------------------------------------------------------
\* Actions (the Action subclasses), as records with one shape
\* ------------------------------------------------------------------------
Act(kind, who, name, amount, req, target) ==
  [kind |-> kind, who |-> who, name |-> name, amount |-> amount,
   req |-> req, target |-> target, target_completion_date |-> ""]

\* target_completion_date as the response carried it: an ISO date without
\* offset, an ISO date with a UTC offset, a JSON number, or other text
IsoDate == "2026-06-30"
IsoDateWithOffset == "2026-06-30T00:00:00+00:00"
NumberForDate == "2026 (number)"

Fundraise(who, amount) == Act("fundraise", who, "", amount, ZeroBalance, "")
CreateResearchProject(who, name, annual, req) ==
  [Act("create_research_project", who, name, annual, req, "")
     EXCEPT !.target_completion_date = IsoDate]
CancelResearchProject(who, name) ==
  Act("cancel_research_project", who, name, 0, ZeroBalance, "")
InvestCapital(who, amount) == Act("invest_capital", who, "", amount, ZeroBalance, "")
SellCapital(who, amount) == Act("sell_capital", who, "", amount, ZeroBalance, "")
Espionage(who, target, b) == Act("espionage", who, "focus", b, ZeroBalance, target)
PoachTalent(who, target, b) == Act("poach_talent", who, "", b, ZeroBalance, target)
Lobby(who, b) == Act("lobby", who, "msg", b, ZeroBalance, "")
Marketing(who, b) == Act("marketing", who, "msg", b, ZeroBalance, "")
BilateralMessage(who, target, content) ==
  Act("bilateral_message", who, content, 0, ZeroBalance, target)

\* ResearchProject objects live in a heap; a project list holds references.
ResearchProject(name, cb, ca) ==
  [project_name |-> name, committed_budget |-> cb, committed_assets |-> ca,
   target_completion_date |-> 0, status |-> "active", progress |-> 0]


\* Result strings: tag, separator, text ("Success:..." / "Fail:...").  A string
\* is the sequence of its pieces, so that iterating over it yields the pieces.
Result(tag, text) == <<tag, ":", text>>
ResultOn(tag, text, target) == <<tag, ":", text, target>>

\* Message(from_character, to_character, content, timestamp, round_number)
Message(from, to, content, ts, rnd) ==
  [from_character |-> from, to_character |-> to, content |-> content,
   timestamp |-> ts, round_number |-> rnd]

\* ------------------------------------------------------------------------
\* State
\* ------------------------------------------------------------------------
VARIABLES
  scenario,               \* the scenario configuration of this run (fixed)
  pc,                     \* position of run_simulation / simulate_one_round
  turn,                   \* index in PlayerOrder of the player being served
  round_count,            \* run_simulation's local counter
  attempt,                \* get_player_move: the for-loop variable
  moves_to_validate,      \* get_player_move: the proposal under validation
  valid_moves,            \* get_player_move: accepted moves of this attempt
  current_move_index,     \* get_player_move: index into moves_to_validate (1-based)
  actions,                \* run_simulation: player -> accepted action list
  unaccepted,             \* history: player -> what get_player_move left in
                          \* moves_to_validate when it returned this round
  round_number,           \* game_state.round_number
  current_date,           \* game_state.current_date (days since 2024-01-01)
  current_time,           \* gamemaster.current_time
  public_events,          \* game_state.public_events
  game_history,           \* game_state.game_history
  true_asset_balance,     \* player -> private_info.true_asset_balance
  budget,                 \* player -> private_info.budget
  projects,               \* player -> private_info.projects (references into heap)
  heap,                   \* the ResearchProject objects
  espionage,              \* player -> private_info.espionage
  inbox,                  \* player -> inbox
  public_view,            \* player -> public_view.asset_balance
  recent_actions,         \* player -> recent_actions
  queue,                  \* simulate_one_round: actions still to resolve, batch order
  action_results,         \* simulate_one_round: player -> result strings
  current_gamemaster_updates, \* player -> update message (or None)
  calc,                   \* operands and result of an AssetBalance evaluation
                          \* outside a game run (idle during a game run)
  gofish                  \* the Go Fish game master, its game state and players
                          \* (idle while the research strategy game runs)

vars ==
  <<scenario, pc, turn, round_count, attempt, moves_to_validate, valid_moves,
    current_move_index, actions, unaccepted, round_number, current_date,
    current_time, public_events, game_history, true_asset_balance, budget,
    projects, heap, espionage, inbox, public_view, recent_actions, queue,
    action_results, current_gamemaster_updates, calc, gofish>>

\* The part of the state the batch resolvers work on.
World ==
  [true_asset_balance |-> true_asset_balance, budget |-> budget,
   projects |-> projects, heap |-> heap, espionage |-> espionage,
   inbox |-> inbox]

\* ------------------------------------------------------------------------
\* Validation (Action.validate_action and its overrides): None or a reason
\* ------------------------------------------------------------------------
_get_player_by_name(name) == IF name \in Players THEN name ELSE None

base_validate_action(a) ==
  IF _get_player_by_name(a.who) = None THEN "Player not found" ELSE None

FundraiseAction_validate_action(a, w, date) ==
  IF base_validate_action(a) # None THEN base_validate_action(a)
  ELSE IF a.amount <= 0 THEN "Fundraising requires positive amount"
  ELSE None

CreateResearchProjectAction_validate_action(a, w, date) ==
  IF base_validate_action(a) # None THEN base_validate_action(a)
  ELSE LET current == w.true_asset_balance[a.who]
           required == a.req
       IN IF \/ current.technical_capability < required.technical_capability
             \/ current.capital < required.capital
             \/ current.human < required.human
          THEN "Insufficient resources for research project"
          ELSE IF BudgetGet(w.budget[a.who], Year(date)) < a.amount
          THEN "Insufficient budget for research project"
          ELSE None

CancelResearchProjectAction_validate_action(a, w, date) ==
  IF base_validate_action(a) # None THEN base_validate_action(a)
  ELSE IF a.name = "" THEN "Cancel action requires project project_name"
  ELSE IF \E i \in 1..Len(w.projects[a.who]) :
            /\ w.heap[w.projects[a.who][i]].project_name = a.name
            /\ w.heap[w.projects[a.who][i]].status = "active"
       THEN None
       ELSE "Active research project not found"

InvestCapitalAction_validate_action(a, w, date) ==
  IF base_validate_action(a) # None THEN base_validate_action(a)
  ELSE IF a.amount <= 0 THEN "Capital investment requires positive amount"
  ELSE IF BudgetGet(w.budget[a.who], Year(date)) < a.amount
       THEN "Insufficient budget for capital investment"
       ELSE None

SellCapitalAction_validate_action(a, w, date) ==
  IF base_validate_action(a) # None THEN base_validate_action(a)
  ELSE IF a.amount <= 0 THEN "Sell capital requires positive amount"
  ELSE IF w.true_asset_balance[a.who].capital < a.amount
       THEN "Insufficient capital to sell"
       ELSE None

EspionageAction_validate_action(a, w, date) ==
  IF base_validate_action(a) # None THEN base_validate_action(a)
  ELSE IF a.target = "" THEN "Espionage requires target character"
  ELSE IF a.target \notin Players THEN "Target character not found"
  ELSE IF a.amount <= 0 THEN "Espionage requires positive budget"
  ELSE IF BudgetGet(w.budget[a.who], Year(date)) < a.amount
       THEN "Insufficient budget for espionage"
       ELSE None

PoachTalentAction_validate_action(a, w, date) ==
  IF base_validate_action(a) # None THEN base_validate_action(a)
  ELSE IF a.target = "" THEN "Poaching requires target character"
  ELSE IF a.amount <= 0 THEN "Poaching requires positive budget"
  ELSE IF a.target \notin Players THEN "Target character not found"
  ELSE IF BudgetGet(w.budget[a.who], Year(date)) < a.amount
       THEN "Insufficient budget for poaching"
       ELSE None

LobbyAction_validate_action(a, w, date) ==
  IF base_validate_action(a) # None THEN base_validate_action(a)
  ELSE IF a.amount <= 0 THEN "Lobbying requires positive budget"
  ELSE IF BudgetGet(w.budget[a.who], Year(date)) < a.amount
       THEN "Insufficient budget for lobbying"
       ELSE None

MarketingAction_validate_action(a, w, date) ==
  IF base_validate_action(a) # None THEN base_validate_action(a)
  ELSE IF a.amount <= 0 THEN "Marketing requires positive budget"
  ELSE IF BudgetGet(w.budget[a.who], Year(date)) < a.amount
       THEN "Insufficient budget for marketing"
       ELSE None

MessageAction_validate_action(a, w, date) ==
  IF base_validate_action(a) # None THEN base_validate_action(a)
  ELSE IF a.target = "" THEN "Message requires recipient"
  ELSE IF a.target \notin Players THEN "Recipient not found"
  ELSE None

\* Dispatch on the action's class.
validate_action(a, w, date) ==
  CASE a.kind = "fundraise" -> FundraiseAction_validate_action(a, w, date)
    [] a.kind = "create_research_project" ->
         CreateResearchProjectAction_validate_action(a, w, date)
    [] a.kind = "cancel_research_project" ->
         CancelResearchProjectAction_validate_action(a, w, date)
    [] a.kind = "invest_capital" -> InvestCapitalAction_validate_action(a, w, date)
    [] a.kind = "sell_capital" -> SellCapitalAction_validate_action(a, w, date)
    [] a.kind = "espionage" -> EspionageAction_validate_action(a, w, date)
    [] a.kind = "poach_talent" -> PoachTalentAction_validate_action(a, w, date)
    [] a.kind = "lobby" -> LobbyAction_validate_action(a, w, date)
    [] a.kind = "marketing" -> MarketingAction_validate_action(a, w, date)
    [] a.kind = "bilateral_message" -> MessageAction_validate_action(a, w, date)

\* ------------------------------------------------------------------------
\* Batch resolvers: _process_single_action of each kind.  Each returns the
\* new world and the result string; coin is the outcome of random() < rate.
\* ------------------------------------------------------------------------
Out(w, r) == [w |-> w, result |-> r]

\* The resolver did not return: an exception left it
Raise == Result("Raise", "TypeError")
Raises(out) == out.result # None /\ out.result = Raise

\* datetime.fromisoformat(target_completion_date) catches ValueError only: a
\* value that is no string raises TypeError; _assess_research_realism subtracts
\* datetime.now() from the parsed date, which raises TypeError when the date
\* carries an offset
TargetDateRaises(a) ==
  a.target_completion_date \in {NumberForDate, IsoDateWithOffset}

FundraiseAction_process_single_action(a, w, date, rnd, coin) ==
  IF coin
  THEN LET year == Year(date)
           current_budget == BudgetGet(w.budget[a.who], year)
           amount_received ==
             Scale(a.amount, fundraise_efficiency_num, fundraise_efficiency_den)
       IN Out([w EXCEPT !.budget[a.who] =
                 BudgetSet(@, year, current_budget + amount_received)],
              Result("Success", "Fundraised"))
  ELSE Out(w, Result("Fail", "Fundraising attempt was unsuccessful"))

\* datetime.fromisoformat(action.target_completion_date), in days since
\* 2024-01-01; any other text raises ValueError and the resolver falls back to
\* current_date + 365 days
IsoDateDay == 911                   \* 2026-06-30
TargetDate(a, date) ==
  IF a.target_completion_date = IsoDate THEN IsoDateDay ELSE date + 365

\* _assess_research_realism: the target date the project is left with.  now is
\* what datetime.now() returns; required_resources is kept in tenths.
_assess_research_realism(target, committed_assets, now) ==
  LET days_to_complete == target - now
      required_resources == 10 * committed_assets.human
                              + 5 * committed_assets.technical_capability
                              + 3 * committed_assets.capital
  IN IF required_resources * days_to_complete < days_to_complete * 100
     THEN now + 365
     ELSE target

\* the project the creation resolver appends
NewProject(a, date, now) ==
  [ResearchProject(a.name, a.amount, a.req) EXCEPT
     !.target_completion_date =
        _assess_research_realism(TargetDate(a, date), a.req, now)]

\* A variant of the creation resolver without the asset re-check
CreateResearchProjectAction_process_unchecked(a, w, date, rnd, coin, now) ==
  LET required == a.req
      current == w.true_asset_balance[a.who]
      year == Year(date)
      current_budget == BudgetGet(w.budget[a.who], year)
  IN IF current_budget < a.amount
     THEN Out(w, Result("Fail", "Insufficient budget for research project"))
     ELSE Out([w EXCEPT
                 !.true_asset_balance[a.who] = subtract(current, required),
                 !.budget[a.who] = BudgetSet(@, year, current_budget - a.amount),
                 !.heap = Append(@, NewProject(a, date, now)),
                 !.projects[a.who] = Append(@, Len(w.heap) + 1)],
              Result("Success", "Created research project"))

CreateResearchProjectAction_process_single_action(a, w, date, rnd, coin, now) ==
  LET required == a.req
      current == w.true_asset_balance[a.who]
      year == Year(date)
      current_budget == BudgetGet(w.budget[a.who], year)
  IN IF \/ current.technical_capability < required.technical_capability
        \/ current.capital < required.capital
        \/ current.human < required.human
     THEN Out(w, Result("Fail", "Insufficient resources to start research project"))
     ELSE IF current_budget < a.amount
     THEN Out(w, Result("Fail", "Insufficient budget for research project"))
     ELSE IF TargetDateRaises(a)
     THEN Out(w, Raise)
     ELSE Out([w EXCEPT
                 !.true_asset_balance[a.who] = subtract(current, required),
                 !.budget[a.who] = BudgetSet(@, year, current_budget - a.amount),
                 !.heap = Append(@, NewProject(a, date, now)),
                 !.projects[a.who] = Append(@, Len(w.heap) + 1)],
              Result("Success", "Created research project"))

\* Index of the first project of the list with this name and status active, or 0
FirstActiveNamed(w, who, name) ==
  LET hits == {i \in 1..Len(w.projects[who]) :
                 /\ w.heap[w.projects[who][i]].project_name = name
                 /\ w.heap[w.projects[who][i]].status = "active"}
  IN IF hits = {} THEN 0 ELSE CHOOSE i \in hits : \A j \in hits : i <= j

\* A variant of the cancellation resolver that refunds the full commitment
CancelResearchProjectAction_process_full_refund(a, w, date, rnd, coin) ==
  LET i == FirstActiveNamed(w, a.who, a.name)
  IN IF i = 0
     THEN Out(w, Result("Fail", "Could not find active research project"))
     ELSE LET ref == w.projects[a.who][i]
          IN Out([w EXCEPT
                    !.heap[ref].status = "cancelled",
                    !.true_asset_balance[a.who] =
                       add(@, w.heap[ref].committed_assets)],
                 Result("Success", "Cancelled research project"))

CancelResearchProjectAction_process_single_action(a, w, date, rnd, coin) ==
  LET i == FirstActiveNamed(w, a.who, a.name)
  IN IF i = 0
     THEN Out(w, Result("Fail", "Could not find active research project"))
     ELSE LET ref == w.projects[a.who][i]
              ca == w.heap[ref].committed_assets
              refund ==
                AssetBalance(
                  Scale(ca.technical_capability, refund_rate_num, refund_rate_den),
                  Scale(ca.capital, refund_rate_num, refund_rate_den),
                  Scale(ca.human, refund_rate_num, refund_rate_den))
          IN Out([w EXCEPT
                    !.heap[ref].status = "cancelled",
                    !.true_asset_balance[a.who] = add(@, refund)],
                 Result("Success", "Cancelled research project"))

\* A variant of the investment resolver that does not look at the budget
InvestCapitalAction_process_unchecked(a, w, date, rnd, coin) ==
  LET year == Year(date)
      b == BudgetGet(w.budget[a.who], year)
      capital_gained == Scale(a.amount, invest_efficiency_num, invest_efficiency_den)
  IN Out([w EXCEPT
            !.budget[a.who] = BudgetSet(@, year, b - a.amount),
            !.true_asset_balance[a.who].capital = @ + capital_gained],
         Result("Success", "Invested in capital improvements"))

InvestCapitalAction_process_single_action(a, w, date, rnd, coin) ==
  LET year == Year(date)
      b == BudgetGet(w.budget[a.who], year)
  IN IF b < a.amount
     THEN Out(w, Result("Fail", "Insufficient budget for capital investment"))
     ELSE LET capital_gained ==
                Scale(a.amount, invest_efficiency_num, invest_efficiency_den)
          IN Out([w EXCEPT
                    !.budget[a.who] = BudgetSet(@, year, b - a.amount),
                    !.true_asset_balance[a.who].capital = @ + capital_gained],
                 Result("Success", "Invested in capital improvements"))

SellCapitalAction_process_single_action(a, w, date, rnd, coin) ==
  IF w.true_asset_balance[a.who].capital < a.amount
  THEN Out(w, Result("Fail", "Insufficient capital to sell"))
  ELSE LET year == Year(date)
           current_budget == BudgetGet(w.budget[a.who], year)
           budget_gained == Scale(a.amount, sell_efficiency_num, sell_efficiency_den)
       IN Out([w EXCEPT
                 !.true_asset_balance[a.who].capital = @ - a.amount,
                 !.budget[a.who] = BudgetSet(@, year, current_budget + budget_gained)],
              Result("Success", "Sold capital assets"))

EspionageAction_process_single_action(a, w, date, rnd, coin) ==
  IF a.target \notin Players
  THEN Out(w, Result("Fail", "Espionage target not found"))
  ELSE LET year == Year(date)
           b == BudgetGet(w.budget[a.who], year)
       IN IF b < a.amount
          THEN Out(w, Result("Fail", "Insufficient budget for espionage"))
          ELSE Out([w EXCEPT
                      !.budget[a.who] = BudgetSet(@, year, b - a.amount),
                      !.espionage[a.who] =
                         Append(@, [target |-> a.target, focus |-> a.name,
                                    budget |-> a.amount, success |-> coin,
                                    round |-> rnd])],
                   ResultOn(IF coin THEN "Success" ELSE "Fail", "Conducted espionage on",
                            a.target))

\* A variant of the poaching resolver that leaves the target's staff in place
PoachTalentAction_process_without_loss(a, w, date, rnd, coin) ==
  IF a.target \notin Players
  THEN Out(w, Result("Fail", "target not found"))
  ELSE LET year == Year(date)
           b == BudgetGet(w.budget[a.who], year)
           w1 == [w EXCEPT !.budget[a.who] = BudgetSet(@, year, b - a.amount)]
       IN IF b < a.amount
          THEN Out(w, Result("Fail", "Insufficient budget for poaching"))
          ELSE IF coin
          THEN LET transfer_amount ==
                     Min(Scale(w1.true_asset_balance[a.target].human,
                               transfer_rate_num, transfer_rate_den),
                         max_transfer)
               IN Out([w1 EXCEPT
                         !.true_asset_balance[a.who].human = @ + transfer_amount],
                      ResultOn("Success", "Poached talent from", a.target))
          ELSE Out(w1, ResultOn("Fail", "Poaching attempt on", a.target))

PoachTalentAction_process_single_action(a, w, date, rnd, coin) ==
  IF a.target \notin Players
  THEN Out(w, Result("Fail", "target not found"))
  ELSE LET year == Year(date)
           b == BudgetGet(w.budget[a.who], year)
           w1 == [w EXCEPT !.budget[a.who] = BudgetSet(@, year, b - a.amount)]
       IN IF b < a.amount
          THEN Out(w, Result("Fail", "Insufficient budget for poaching"))
          ELSE IF coin
          THEN LET transfer_amount ==
                     Min(Scale(w1.true_asset_balance[a.target].human,
                               transfer_rate_num, transfer_rate_den),
                         max_transfer)
                   w2 == [w1 EXCEPT
                            !.true_asset_balance[a.target].human = @ - transfer_amount]
               IN Out([w2 EXCEPT
                         !.true_asset_balance[a.who].human = @ + transfer_amount],
                      ResultOn("Success", "Poached talent from", a.target))
          ELSE Out(w1, ResultOn("Fail", "Poaching attempt on", a.target))

LobbyAction_process_single_action(a, w, date, rnd, coin) ==
  LET year == Year(date)
      b == BudgetGet(w.budget[a.who], year)
  IN IF b < a.amount
     THEN Out(w, Result("Fail", "Insufficient budget for lobbying"))
     ELSE Out([w EXCEPT !.budget[a.who] = BudgetSet(@, year, b - a.amount)],
              IF coin THEN Result("Success", "Launched lobbying campaign")
                      ELSE Result("Fail", "Lobbying campaign backfired"))

MarketingAction_process_single_action(a, w, date, rnd, coin) ==
  LET year == Year(date)
      b == BudgetGet(w.budget[a.who], year)
  IN IF b < a.amount
     THEN Out(w, Result("Fail", "Insufficient budget for marketing"))
     ELSE Out([w EXCEPT !.budget[a.who] = BudgetSet(@, year, b - a.amount)],
              Result("Success", "Launched marketing campaign"))

\* MessageAction.handle_actions, one action: no result string, the message goes
\* into the recipient's inbox (an unknown recipient is skipped).
MessageAction_handle_one(a, w, date, rnd, coin) ==
  IF _get_player_by_name(a.target) = None
  THEN Out(w, None)
  ELSE Out([w EXCEPT !.inbox[a.target] =
              Append(@, Message(a.who, a.target, a.name, date, rnd))],
           None)

\* Which kinds draw from the random source
UsesRandom(a) == a.kind \in {"fundraise", "espionage", "poach_talent", "lobby"}

\* handle_actions of the action's class, applied to one action of the batch
process_single_action(a, w, date, rnd, coin, now) ==
  CASE a.kind = "fundraise" -> FundraiseAction_process_single_action(a, w, date, rnd, coin)
    [] a.kind = "create_research_project" ->
         CreateResearchProjectAction_process_single_action(a, w, date, rnd, coin, now)
    [] a.kind = "cancel_research_project" ->
         CancelResearchProjectAction_process_single_action(a, w, date, rnd, coin)
    [] a.kind = "invest_capital" ->
         InvestCapitalAction_process_single_action(a, w, date, rnd, coin)
    [] a.kind = "sell_capital" ->
         SellCapitalAction_process_single_action(a, w, date, rnd, coin)
    [] a.kind = "espionage" ->
         EspionageAction_process_single_action(a, w, date, rnd, coin)
    [] a.kind = "poach_talent" ->
         PoachTalentAction_process_single_action(a, w, date, rnd, coin)
    [] a.kind = "lobby" -> LobbyAction_process_single_action(a, w, date, rnd, coin)
    [] a.kind = "marketing" ->
         MarketingAction_process_single_action(a, w, date, rnd, coin)
    [] a.kind = "bilateral_message" -> MessageAction_handle_one(a, w, date, rnd, coin)

\* ------------------------------------------------------------------------
\* Passive world processes
\* ------------------------------------------------------------------------
\* _update_research_projects, the loop body for one entry of a project list
UpdateOneProject(w, who, ref, year) ==
  IF w.heap[ref].status # "active" THEN w
  ELSE LET project == w.heap[ref]
           progress_rate ==
             Min(research_progress_rate_base
                   + (project.committed_assets.human * 100) \div research_human_scaling,
                 research_progress_rate_max)
           progress == Min(project.progress + progress_rate, 100)
           w1 == [w EXCEPT !.heap[ref].progress = progress,
                           !.heap[ref].status =
                              IF progress >= 100 THEN "completed" ELSE @]
           b == BudgetGet(w1.budget[who], year)
       IN IF b >= project.committed_budget
          THEN [w1 EXCEPT !.budget[who] =
                  BudgetSet(@, year, b - project.committed_budget)]
          ELSE w1

RECURSIVE UpdateProjectsFrom(_, _, _, _)
UpdateProjectsFrom(w, k, i, year) ==
  IF k > Len(PlayerOrder) THEN w
  ELSE IF i > Len(w.projects[PlayerOrder[k]])
       THEN UpdateProjectsFrom(w, k + 1, 1, year)
       ELSE UpdateProjectsFrom(
              UpdateOneProject(w, PlayerOrder[k], w.projects[PlayerOrder[k]][i], year),
              k, i + 1, year)

_update_research_projects(w, date) == UpdateProjectsFrom(w, 1, 1, Year(date))

\* _simulate_information_leaks: the leaked text names the character, its budget of
\* the current year and its human resources.
LeakInfo(who) ==
  [event |-> "leak", who |-> who,
   budget |-> BudgetGet(budget[who], Year(current_date)),
   human |-> true_asset_balance[who].human]

RandomEvent(rnd, text) == [event |-> "random", round |-> rnd, text |-> text]

\* ------------------------------------------------------------------------
\* Broadcast construction (_create_update_messages, create_player_update_messages)
\* ------------------------------------------------------------------------
LastN(seq, n) == IF Len(seq) <= n THEN seq ELSE SubSeq(seq, Len(seq) - n + 1, Len(seq))

RECURSIVE Flatten(_)
Flatten(seqs) == IF seqs = <<>> THEN <<>> ELSE Head(seqs) \o Flatten(Tail(seqs))

SelectRefs(w, who, status) ==
  SelectSeq(w.projects[who], LAMBDA ref : w.heap[ref].status = status)

RECURSIVE NamesOf(_, _)
NamesOf(w, refs) ==
  IF refs = <<>> THEN <<>>
  ELSE <<w.heap[Head(refs)].project_name>> \o NamesOf(w, Tail(refs))

get_messages_for_round(box, rnd) ==
  SelectSeq(box, LAMBDA msg : msg.round_number = rnd)

OtherViews(who) == [q \in Players \ {who} |-> public_view[q]]

_create_action_summary(rnd, date, results, events) ==
  [round |-> rnd, date |-> date, results |-> results, events |-> events]

\* global_summary: Optional[str] = None, as a summary of no round
NoSummary == _create_action_summary(0, 0, [q \in Players |-> <<>>], <<>>)

EmptyUpdates ==
  [budget_changes |-> <<>>, asset_balance_changes |-> None,
   new_projects |-> <<>>, updated_projects |-> <<>>,
   completed_projects |-> <<>>, cancelled_projects |-> <<>>,
   new_messages |-> <<>>, other_players_public_views |-> <<>>,
   public_events |-> <<>>, action_results |-> <<>>,
   espionage_results |-> <<>>, global_summary |-> NoSummary]

UpdateMessage(ts, updates) ==
  [last_action_timestamp |-> ts, next_action_timestamp |-> ts + timestep_days,
   state_updates |-> updates]

create_player_update_messages(who) ==
  UpdateMessage(current_time,
    [EmptyUpdates EXCEPT
       !.other_players_public_views = OtherViews(who),
       !.public_events = LastN(public_events, last_events_shown)])

\* The per-player part of _create_update_messages
PlayerUpdates(who, w, results, summary) ==
  [EmptyUpdates EXCEPT
     !.action_results = Flatten(results[who]),
     !.completed_projects = NamesOf(w, SelectRefs(w, who, "completed")),
     !.updated_projects = SelectRefs(w, who, "active"),
     !.new_messages = get_messages_for_round(w.inbox[who], round_number),
     !.other_players_public_views = OtherViews(who),
     !.public_events = LastN(public_events, last_events_shown),
     !.global_summary = summary]

\* ------------------------------------------------------------------------
\* Broadcast delivery (ResearchStrategyPlayer.update_state)
\* ------------------------------------------------------------------------
\* Index of the first project of the list with this name, or 0
FirstNamed(w, who, name) ==
  LET hits == {i \in 1..Len(w.projects[who]) :
                 w.heap[w.projects[who][i]].project_name = name}
  IN IF hits = {} THEN 0 ELSE CHOOSE i \in hits : \A j \in hits : i <= j

RECURSIVE ApplyBudgetChanges(_, _, _)
ApplyBudgetChanges(b, changes, years) ==
  IF years = {} THEN b
  ELSE LET y == CHOOSE z \in years : TRUE
       IN ApplyBudgetChanges(BudgetSet(b, y, BudgetGet(b, y) + changes[y]),
                             changes, years \ {y})

RECURSIVE ApplyNewProjects(_, _, _)
ApplyNewProjects(w, who, refs) ==
  IF refs = <<>> THEN w
  ELSE ApplyNewProjects([w EXCEPT !.projects[who] = Append(@, Head(refs))],
                        who, Tail(refs))

RECURSIVE ApplyUpdatedProjects(_, _, _)
ApplyUpdatedProjects(w, who, refs) ==
  IF refs = <<>> THEN w
  ELSE LET i == FirstNamed(w, who, w.heap[Head(refs)].project_name)
       IN ApplyUpdatedProjects(
            IF i = 0 THEN w ELSE [w EXCEPT !.projects[who][i] = Head(refs)],
            who, Tail(refs))

RECURSIVE ApplyStatus(_, _, _, _)
ApplyStatus(w, who, names, status) ==
  IF names = <<>> THEN w
  ELSE LET i == FirstNamed(w, who, Head(names))
       IN ApplyStatus(
            IF i = 0 THEN w ELSE [w EXCEPT !.heap[w.projects[who][i]].status = status],
            who, Tail(names), status)

RECURSIVE ApplyMessages(_, _, _)
ApplyMessages(w, who, msgs) ==
  IF msgs = <<>> THEN w
  ELSE ApplyMessages([w EXCEPT !.inbox[who] = Append(@, Head(msgs))], who, Tail(msgs))

\* The private-state part of update_state
update_state(w, who, msg) ==
  LET u == msg.state_updates
      w1 == [w EXCEPT !.budget[who] =
               ApplyBudgetChanges(@, u.budget_changes, DOMAIN u.budget_changes)]
      w2 == IF u.asset_balance_changes = None THEN w1
            ELSE [w1 EXCEPT !.true_asset_balance[who] = add(@, u.asset_balance_changes)]
      w3 == ApplyNewProjects(w2, who, u.new_projects)
      w4 == ApplyUpdatedProjects(w3, who, u.updated_projects)
      w5 == ApplyStatus(w4, who, u.completed_projects, "completed")
      w6 == ApplyStatus(w5, who, u.cancelled_projects, "cancelled")
  IN ApplyMessages(w6, who, u.new_messages)

\* update_state: public_view = other_players_public_views.get(self.name, public_view)
update_public_view(who, msg) ==
  IF who \in DOMAIN msg.state_updates.other_players_public_views
  THEN msg.state_updates.other_players_public_views[who]
  ELSE public_view[who]

\* update_state: recent_actions.extend(result) for each result, keep the last 20
update_recent_actions(who, msg) ==
  IF msg.state_updates.action_results = <<>> THEN recent_actions[who]
  ELSE LastN(recent_actions[who] \o Flatten(
               [i \in 1..Len(msg.state_updates.action_results) |->
                  <<msg.state_updates.action_results[i]>>]),
             recent_actions_keep)

\* ------------------------------------------------------------------------
\* Scenario configuration and participant behaviour (the inputs of a run)
\* ------------------------------------------------------------------------
\* A scenario fixes the start date, every participant's starting private state,
\* the projects already under way, whether leaks and random events occur, and
\* the menu of actions each participant's decision capability may come up with.
ProjectA == CreateResearchProject("P1", "A", 20, AssetBalance(0, 20, 20))
ProjectB == CreateResearchProject("P1", "B", 10, AssetBalance(0, 1000, 0))
\* a request whose completion date carries a UTC offset
ProjectZ ==
  [CreateResearchProject("P1", "Z", 0, ZeroBalance)
     EXCEPT !.target_completion_date = IsoDateWithOffset]
\* a request whose required capital is negative
ProjectN == CreateResearchProject("P1", "N", 100, AssetBalance(0, -100, 0))

ScenarioIds == {"research", "overreach", "started", "invest", "spy", "selfspy",
                "talk", "late", "poach", "poachcap", "negative",
                "batch", "outage", "garbled", "offset"}

StartDate(sc) ==
  CASE sc = "late" -> 300
    [] sc = "batch" -> 200
    [] OTHER -> 0

StartBalance(sc) ==
  CASE sc = "invest" -> [q \in Players |-> ZeroBalance]
    [] sc = "research" ->
         [q \in Players |-> IF q = "P1" THEN AssetBalance(10, 60, 60)
                                        ELSE AssetBalance(10, 100, 40)]
    [] sc = "started" ->
         [q \in Players |-> IF q = "P1" THEN AssetBalance(10, 40, 40)
                                        ELSE AssetBalance(10, 100, 40)]
    [] sc = "overreach" ->
         [q \in Players |-> IF q = "P1" THEN AssetBalance(10, 30, 40)
                                        ELSE AssetBalance(10, 100, 40)]
    [] sc = "poachcap" -> [q \in Players |-> AssetBalance(10, 100, 100)]
    [] sc = "negative" ->
         [q \in Players |-> IF q = "P1" THEN AssetBalance(10, 0, 40)
                                        ELSE AssetBalance(10, 100, 40)]
    [] OTHER -> [q \in Players |-> AssetBalance(10, 100, 40)]

StartBudget(sc) ==
  CASE sc = "invest" ->
         [q \in Players |-> IF q = "P1" THEN (2024 :> 1000000) ELSE (2024 :> 0)]
    [] sc = "late" -> [q \in Players |-> (2024 :> 100)]
    [] sc = "poach" -> [q \in Players |-> (2024 :> 10)]
    [] sc = "batch" -> [q \in Players |-> (2025 :> 100)]
    [] sc \in {"outage", "offset"} -> [q \in Players |-> (2024 :> 10)]
    [] OTHER -> [q \in Players |-> (2024 :> 100) @@ (2025 :> 100)]

\* What datetime.now() can return while the run resolves its actions, in days
\* since 2024-01-01: a day before and a day after the asked completion date
NowBefore == 800                    \* 2026-03-11
NowAfter == 1035                    \* 2026-11-01
WallClock(sc) == IF sc = "overreach" THEN {NowBefore, NowAfter} ELSE {NowAfter}

\* Projects present at setup: the heap and each participant's project list
StartHeap(sc) ==
  IF sc = "started"
  THEN <<[ResearchProject("A", 20, AssetBalance(0, 20, 20)) EXCEPT !.progress = 70]>>
  ELSE <<>>

StartProjects(sc) ==
  [q \in Players |-> IF sc = "started" /\ q = "P1" THEN <<1>> ELSE <<>>]

\* information_leak_probability > 0; the scenario's RANDOM_EVENTS
LeaksEnabled(sc) == sc = "talk"
random_events(sc) == IF sc = "talk" THEN <<"Breakthrough announced">> ELSE <<>>

Menu(sc, who) ==
  CASE sc = "research" /\ who = "P1" -> {ProjectA, CancelResearchProject("P1", "A")}
    [] sc = "overreach" /\ who = "P1" -> {ProjectA, ProjectB}
    [] sc = "started" /\ who = "P1" -> {ProjectA, CancelResearchProject("P1", "A")}
    [] sc = "invest" /\ who = "P1" ->
         {InvestCapital("P1", 500000), InvestCapital("P1", 600000)}
    [] sc = "spy" /\ who = "P1" -> {Espionage("P1", "P2", 10)}
    [] sc = "selfspy" /\ who = "P1" -> {Espionage("P1", "P1", 10)}
    [] sc = "talk" /\ who = "P2" -> {BilateralMessage("P2", "P1", "hello")}
    [] sc = "late" /\ who = "P1" -> {ProjectA, InvestCapital("P1", 50)}
    [] sc = "batch" /\ who = "P1" -> {InvestCapital("P1", 10), Marketing("P1", 10)}
    [] sc = "batch" /\ who = "P2" -> {InvestCapital("P2", 10)}
    [] sc = "poach" /\ who = "P1" ->
         {PoachTalent("P1", "P2", 10), PoachTalent("P1", "P1", 10)}
    [] sc = "poachcap" /\ who = "P1" -> {PoachTalent("P1", "P2", 10)}
    [] sc = "offset" /\ who = "P1" -> {InvestCapital("P1", 10), ProjectZ}
    [] sc = "outage" /\ who = "P2" -> {InvestCapital("P2", 10)}
    [] sc = "garbled" /\ who = "P1" -> {CancelResearchProject("P1", "A")}
    [] sc = "negative" /\ who = "P1" ->
         {ProjectN, SellCapital("P1", 100), CancelResearchProject("P1", "N")}
    [] OTHER -> {}

RECURSIVE SeqsUpTo(_, _)
SeqsUpTo(S, n) ==
  IF n = 0 THEN {<<>>}
  ELSE LET shorter == SeqsUpTo(S, n - 1)
       IN shorter \cup {Append(q, x) : q \in shorter, x \in S}

\* The action lists a well-formed response may carry: at most MaxMoves menu
\* actions
Proposals(sc, who) == SeqsUpTo(Menu(sc, who), MaxMoves)

\* ------------------------------------------------------------------------
\* The decision capability's response text and its parsing
\* (_get_llm_response, extract_json_from_response, _parse_response,
\* _create_move_from_dict).  A response is described by the shape of its text
\* and, where it decodes to an object or a list, by its items.  An item is
\*   "action"       a dictionary that instantiates to an Action
\*   "unknown_type" a dictionary whose type is no ActionType value
\*   "wrong_fields" a dictionary with a known type and missing or extra fields
\*   "no_type"      a dictionary without a type key
\*   "not_a_dict"   a number, string or null
\* ------------------------------------------------------------------------
NoAction == Act("", "", "", 0, ZeroBalance, "")
Item(form, a) == [form |-> form, action |-> a]
ActionDict(a) == Item("action", a)
ActionDicts(moves) == [i \in DOMAIN moves |-> ActionDict(moves[i])]

Response(shape, items) == [shape |-> shape, items |-> items]
\* {"actions": [...]}
ActionsObject(items) == Response("object_actions", items)

\* An agent.run that raises with nothing to catch it
_get_llm_response_uncaught(r) == r

\* agent.run raising, or no agent: the except branch answers {"actions":[]}
_get_llm_response(r) ==
  IF r.shape = "capability_fails" THEN ActionsObject(<<>>) ELSE r

\* json.loads, then the {...} search; text that cannot be decoded gives []
extract_json_from_response(r) ==
  IF r.shape \in {"empty", "text", "braced_text"} THEN Response("list", <<>>) ELSE r

Parsed(moves) == [raised |-> FALSE, moves |-> moves]
Raised == [raised |-> TRUE, moves |-> <<>>]

\* action_dict.pop("type") needs a dictionary; an unknown type and a failed
\* instantiation (TypeError, ValueError) give None
_create_move_from_dict(item) ==
  CASE item.form = "not_a_dict" -> Raised
    [] item.form = "action" -> Parsed(<<item.action>>)
    [] OTHER -> Parsed(<<>>)

RECURSIVE CreateMoves(_)
CreateMoves(items) ==
  IF items = <<>> THEN Parsed(<<>>)
  ELSE LET first == _create_move_from_dict(Head(items))
           rest == CreateMoves(Tail(items))
       IN IF first.raised \/ rest.raised THEN Raised
          ELSE Parsed(first.moves \o rest.moves)

_parse_response(r) ==
  LET data == extract_json_from_response(r)
  IN CASE data.shape = "object_actions" -> CreateMoves(data.items)
       [] data.shape = "object_actions_not_list" -> Raised
       [] data.shape = "object_type" -> CreateMoves(data.items)
       [] data.shape = "list" ->
            IF \E i \in DOMAIN data.items :
                 data.items[i].form \in {"not_a_dict", "no_type"}
            THEN Raised          \* the assert on the list's items
            ELSE CreateMoves(data.items)
       [] OTHER -> Parsed(<<>>)  \* an object without actions or type, a scalar

\* response = await self._get_llm_response(...); self._parse_response(response)
\* (an exception that left _get_llm_response would leave the caller too)
AskAndParse(r) ==
  LET response == _get_llm_response(r)
  IN IF response.shape = "capability_fails" THEN Raised
     ELSE _parse_response(response)

propose_actions(r) == AskAndParse(r)

\* Response texts that are not a well-formed {"actions": [...]} object
Malformed(sc, who) ==
  {Response(shape, <<>>) :
     shape \in {"empty", "text", "braced_text", "object_other", "scalar",
                "object_actions_not_list"}}
  \cup {Response("list", <<Item(form, NoAction)>>) : form \in {"not_a_dict", "no_type"}}
  \cup {ActionsObject(<<Item(form, NoAction)>>) :
          form \in {"unknown_type", "wrong_fields", "no_type", "not_a_dict"}}
  \cup {Response(shape, <<ActionDict(a)>>) :
          shape \in {"list", "object_type"}, a \in Menu(sc, who)}

\* What the decision capability may answer to the round's prompt
Responses(sc, who) ==
  CASE sc = "outage" /\ who = "P1" -> {Response("capability_fails", <<>>)}
    [] sc = "garbled" /\ who = "P1" ->
         {ActionsObject(ActionDicts(p)) : p \in Proposals(sc, who)}
           \cup Malformed(sc, who)
    [] OTHER -> {ActionsObject(ActionDicts(p)) : p \in Proposals(sc, who)}

\* What the decision capability may answer to one correction request
CorrectionReplies(sc, who) ==
  CASE sc = "outage" /\ who = "P1" -> {Response("capability_fails", <<>>)}
    [] sc = "garbled" /\ who = "P1" ->
         {Response("text", <<>>), Response("list", <<Item("not_a_dict", NoAction)>>)}
           \cup {ActionsObject(<<ActionDict(a)>>) : a \in Menu(sc, who)}
    [] OTHER ->
         {ActionsObject(<<>>)} \cup {ActionsObject(<<ActionDict(a)>>) : a \in Menu(sc, who)}

\* correct_moves: ask up to player_max_attempts times, return the first action
\* parsed, fall back to the original move; an exception of the parser goes
\* through
RECURSIVE FirstParsed(_, _, _)
FirstParsed(replies, i, original) ==
  IF i > player_max_attempts THEN Parsed(<<original>>)
  ELSE LET updated_moves == AskAndParse(replies[i])
       IN IF updated_moves.raised THEN Raised
          ELSE IF updated_moves.moves # <<>> THEN Parsed(<<updated_moves.moves[1]>>)
          ELSE FirstParsed(replies, i + 1, original)

correct_moves(original, replies) == FirstParsed(replies, 1, original)

\* ------------------------------------------------------------------------
\* Init
\* ------------------------------------------------------------------------
\* No AssetBalance evaluation under way
IdleCalc ==
  [op |-> "idle", a |-> AssetBalance(Double(0, 0), Double(0, 0), Double(0, 0)),
   b |-> AssetBalance(Double(0, 0), Double(0, 0), Double(0, 0)),
   r |-> AssetBalance(Double(0, 0), Double(0, 0), Double(0, 0))]

\* No Go Fish game is set up
IdleGoFish == [pc |-> "idle"]

\* The state run_simulation starts from, for the scenario chosen
Setup ==
  /\ pc = "start"
  /\ turn = 1
  /\ round_count = 0
  /\ attempt = 0
  /\ moves_to_validate = <<>>
  /\ valid_moves = <<>>
  /\ current_move_index = 1
  /\ actions = [q \in Players |-> <<>>]
  /\ unaccepted = [q \in Players |-> <<>>]
  /\ round_number = 0
  /\ current_date = StartDate(scenario)
  /\ current_time = StartDate(scenario)
  /\ public_events = <<>>
  /\ game_history = <<>>
  /\ true_asset_balance = StartBalance(scenario)
  /\ budget = StartBudget(scenario)
  /\ projects = StartProjects(scenario)
  /\ heap = StartHeap(scenario)
  /\ espionage = [q \in Players |-> <<>>]
  /\ inbox = [q \in Players |-> <<>>]
  /\ public_view = [q \in Players |-> AssetBalance(10, 100, 40)]
  /\ recent_actions = [q \in Players |-> <<>>]
  /\ queue = <<>>
  /\ action_results = [q \in Players |-> <<>>]
  /\ current_gamemaster_updates = [q \in {} |-> NoSummary]   \* the empty dict

Init ==
  /\ scenario \in ScenarioIds
  /\ calc = IdleCalc
  /\ gofish = IdleGoFish
  /\ Setup

\* Assign the resolver-owned variables from a world record
SetWorld(w) ==
  /\ true_asset_balance' = w.true_asset_balance
  /\ budget' = w.budget
  /\ projects' = w.projects
  /\ heap' = w.heap
  /\ espionage' = w.espionage
  /\ inbox' = w.inbox

worldVars == <<true_asset_balance, budget, projects, heap, espionage, inbox>>
loopVars == <<attempt, moves_to_validate, valid_moves, current_move_index>>
clockVars == <<round_number, current_date, current_time>>

\* ------------------------------------------------------------------------
\* run_simulation: initial broadcast and the round loop
\* ------------------------------------------------------------------------
Deliver(who, msg) ==
  /\ SetWorld(update_state(World, who, msg))
  /\ public_view' = [public_view EXCEPT ![who] = update_public_view(who, msg)]
  /\ recent_actions' = [recent_actions EXCEPT ![who] = update_recent_actions(who, msg)]

\* for player in self.players: create_player_update_messages, update_state, store
InitialBroadcast ==
  /\ pc = "start"
  /\ LET who == PlayerOrder[turn]
         msg == create_player_update_messages(who)
     IN /\ Deliver(who, msg)
        /\ current_gamemaster_updates' = (who :> msg) @@ current_gamemaster_updates
  /\ IF turn < Len(PlayerOrder)
     THEN /\ turn' = turn + 1
          /\ pc' = pc
     ELSE /\ turn' = 1
          /\ pc' = "loop"
  /\ UNCHANGED <<gofish, calc, scenario, round_count, loopVars, actions, unaccepted, clockVars,
                 public_events, game_history, queue, action_results>>

\* while round_count < max_rounds: round_count += 1
BeginRound ==
  /\ pc = "loop"
  /\ round_count < max_rounds
  /\ round_count' = round_count + 1
  /\ pc' = "propose"
  /\ turn' = 1
  /\ attempt' = 0
  /\ actions' = [q \in Players |-> <<>>]
  /\ unaccepted' = [q \in Players |-> <<>>]
  /\ UNCHANGED <<gofish, calc, scenario, moves_to_validate, valid_moves, current_move_index,
                 clockVars, public_events, game_history, worldVars, public_view,
                 recent_actions, queue, action_results, current_gamemaster_updates>>

\* the loop condition fails: run_simulation returns
EndSimulation ==
  /\ pc = "loop"
  /\ round_count >= max_rounds
  /\ pc' = "done"
  /\ UNCHANGED <<gofish, calc, scenario, turn, round_count, loopVars, actions, unaccepted, clockVars,
                 public_events, game_history, worldVars, public_view,
                 recent_actions, queue, action_results, current_gamemaster_updates>>

\* ------------------------------------------------------------------------
\* get_player_move: the propose / validate / correct loop for PlayerOrder[turn]
\* ------------------------------------------------------------------------
\* A variant of the return value that also hands over what was never accepted
returned_moves_with_leftover(valid, leftover) == valid \o leftover

\* get_player_move's return value: return valid_moves
returned_moves(valid, leftover) == valid

RemoveAt(seq, i) == SubSeq(seq, 1, i - 1) \o SubSeq(seq, i + 1, Len(seq))

frameOfLoop ==
  <<gofish, calc, scenario, round_count, clockVars, public_events, game_history, worldVars,
    public_view, recent_actions, queue, action_results, current_gamemaster_updates>>

\* for attempt in range(max_attempts): moves_to_validate = propose_actions(...)
ProposeActions ==
  /\ pc = "propose"
  /\ attempt < max_attempts
  /\ \E response \in Responses(scenario, PlayerOrder[turn]) :
       /\ ~propose_actions(response).raised
       /\ moves_to_validate' = propose_actions(response).moves
  /\ valid_moves' = <<>>
  /\ current_move_index' = 1
  /\ pc' = "validate"
  /\ UNCHANGED <<turn, attempt, actions, unaccepted>>
  /\ UNCHANGED frameOfLoop

\* propose_actions raises: nothing catches it in get_player_move or in
\* run_simulation, the run ends with the exception
ProposeRaises ==
  /\ pc = "propose"
  /\ attempt < max_attempts
  /\ \E response \in Responses(scenario, PlayerOrder[turn]) :
       propose_actions(response).raised
  /\ pc' = "aborted"
  /\ UNCHANGED <<turn, loopVars, actions, unaccepted>>
  /\ UNCHANGED frameOfLoop

\* A validation that reserves the budget of the current year while it checks
AcceptMove_reserving_budget ==
  /\ pc = "validate"
  /\ current_move_index <= Len(moves_to_validate)
  /\ validate_action(moves_to_validate[current_move_index], World, current_date) = None
  /\ valid_moves' = Append(valid_moves, moves_to_validate[current_move_index])
  /\ moves_to_validate' = RemoveAt(moves_to_validate, current_move_index)
  /\ budget' = [budget EXCEPT ![PlayerOrder[turn]] =
                  BudgetSet(@, Year(current_date), 0)]
  /\ UNCHANGED <<pc, turn, attempt, current_move_index, actions, unaccepted>>
  /\ UNCHANGED <<gofish, calc, scenario, round_count, clockVars, public_events, game_history,
                 true_asset_balance, projects, heap, espionage, inbox,
                 public_view, recent_actions, queue, action_results,
                 current_gamemaster_updates>>

\* validation_error is None: pop the candidate into valid_moves
AcceptMove ==
  /\ pc = "validate"
  /\ current_move_index <= Len(moves_to_validate)
  /\ validate_action(moves_to_validate[current_move_index], World, current_date) = None
  /\ valid_moves' = Append(valid_moves, moves_to_validate[current_move_index])
  /\ moves_to_validate' = RemoveAt(moves_to_validate, current_move_index)
  /\ UNCHANGED <<pc, turn, attempt, current_move_index, actions, unaccepted>>
  /\ UNCHANGED frameOfLoop

\* validation failed: ask correct_moves, store its answer in place, move on
RequestCorrection ==
  /\ pc = "validate"
  /\ current_move_index <= Len(moves_to_validate)
  /\ validate_action(moves_to_validate[current_move_index], World, current_date) # None
  /\ \E replies \in [1..player_max_attempts ->
                       CorrectionReplies(scenario, PlayerOrder[turn])] :
       LET updated_move == correct_moves(moves_to_validate[current_move_index], replies)
       IN /\ ~updated_move.raised
          /\ moves_to_validate' =
               [moves_to_validate EXCEPT ![current_move_index] = updated_move.moves[1]]
  /\ current_move_index' = current_move_index + 1
  /\ UNCHANGED <<pc, turn, attempt, valid_moves, actions, unaccepted>>
  /\ UNCHANGED frameOfLoop

\* correct_moves raises while it parses a reply: the run ends with the exception
CorrectionRaises ==
  /\ pc = "validate"
  /\ current_move_index <= Len(moves_to_validate)
  /\ validate_action(moves_to_validate[current_move_index], World, current_date) # None
  /\ \E replies \in [1..player_max_attempts ->
                       CorrectionReplies(scenario, PlayerOrder[turn])] :
       correct_moves(moves_to_validate[current_move_index], replies).raised
  /\ pc' = "aborted"
  /\ UNCHANGED <<turn, loopVars, actions, unaccepted>>
  /\ UNCHANGED frameOfLoop

\* the while loop ends and another attempt follows
NextAttempt ==
  /\ pc = "validate"
  /\ current_move_index > Len(moves_to_validate)
  /\ attempt + 1 < max_attempts
  /\ attempt' = attempt + 1
  /\ pc' = "propose"
  /\ moves_to_validate' = <<>>     \* dead until the next proposal overwrites them
  /\ valid_moves' = <<>>
  /\ current_move_index' = 1
  /\ UNCHANGED <<turn, actions, unaccepted>>
  /\ UNCHANGED frameOfLoop

\* the for loop is exhausted: return valid_moves; run_simulation stores it and
\* turns to the next player, or calls simulate_one_round
ReturnMoves ==
  /\ pc = "validate"
  /\ current_move_index > Len(moves_to_validate)
  /\ attempt + 1 >= max_attempts
  /\ actions' = [actions EXCEPT ![PlayerOrder[turn]] =
                  returned_moves(valid_moves, moves_to_validate)]
  /\ unaccepted' = [unaccepted EXCEPT ![PlayerOrder[turn]] = moves_to_validate]
  /\ attempt' = 0
  /\ moves_to_validate' = <<>>
  /\ valid_moves' = <<>>
  /\ current_move_index' = 1
  /\ IF turn < Len(PlayerOrder)
     THEN /\ turn' = turn + 1
          /\ pc' = "propose"
     ELSE /\ turn' = 1
          /\ pc' = "simulate"
  /\ UNCHANGED frameOfLoop

\* ------------------------------------------------------------------------
\* simulate_one_round
\* ------------------------------------------------------------------------
RECURSIVE ConcatActions(_)
ConcatActions(k) ==
  IF k > Len(PlayerOrder) THEN <<>>
  ELSE actions[PlayerOrder[k]] \o ConcatActions(k + 1)

\* The accepted actions in submission order, not grouped
GroupByType_one_at_a_time(all) == all

\* actions_by_type in insertion order, each type's list in submission order
RECURSIVE GroupByType(_)
GroupByType(all) ==
  IF all = <<>> THEN <<>>
  ELSE SelectSeq(all, LAMBDA a : a.kind = Head(all).kind)
         \o GroupByType(SelectSeq(all, LAMBDA a : a.kind # Head(all).kind))

\* A round step that moves the date one timestep back
IncrementRound_rewinding_date ==
  /\ pc = "simulate"
  /\ round_number' = round_number + 1
  /\ current_date' = current_date - timestep_days
  /\ queue' = GroupByType(ConcatActions(1))
  /\ action_results' = [q \in Players |-> <<>>]
  /\ pc' = "resolve"
  /\ UNCHANGED <<gofish, calc, scenario, turn, round_count, loopVars, actions, unaccepted, current_time,
                 public_events, game_history, worldVars, public_view,
                 recent_actions, current_gamemaster_updates>>

\* Step 1 and 2: increment_round, group the accepted actions by type
IncrementRound ==
  /\ pc = "simulate"
  /\ round_number' = round_number + 1
  /\ current_date' = current_date + timestep_days
  /\ queue' = GroupByType(ConcatActions(1))
  /\ action_results' = [q \in Players |-> <<>>]
  /\ pc' = "resolve"
  /\ UNCHANGED <<gofish, calc, scenario, turn, round_count, loopVars, actions, unaccepted, current_time,
                 public_events, game_history, worldVars, public_view,
                 recent_actions, current_gamemaster_updates>>

\* Step 3: the next action of the current batch
ResolveNext ==
  /\ pc = "resolve"
  /\ queue # <<>>
  /\ \E coin \in (IF UsesRandom(Head(queue)) THEN BOOLEAN ELSE {FALSE}) :
     \E now \in WallClock(scenario) :
       LET a == Head(queue)
           out == process_single_action(a, World, current_date, round_number,
                                        coin, now)
       IN /\ ~Raises(out)
          /\ SetWorld(out.w)
          /\ action_results' =
               IF out.result = None THEN action_results
               ELSE [action_results EXCEPT ![a.who] = Append(@, out.result)]
  /\ queue' = Tail(queue)
  /\ UNCHANGED <<gofish, calc, scenario, pc, turn, round_count, loopVars, actions, unaccepted, clockVars,
                 public_events, game_history, public_view, recent_actions,
                 current_gamemaster_updates>>

\* An exception leaves the resolver: handle_actions, simulate_one_round and
\* run_simulation have no handler, the run ends where it is
ResolveRaises ==
  /\ pc = "resolve"
  /\ queue # <<>>
  /\ \E coin \in (IF UsesRandom(Head(queue)) THEN BOOLEAN ELSE {FALSE}) :
     \E now \in WallClock(scenario) :
       Raises(process_single_action(Head(queue), World, current_date,
                                    round_number, coin, now))
  /\ pc' = "aborted"
  /\ UNCHANGED <<gofish, calc, scenario, turn, round_count, loopVars, actions, unaccepted,
                 clockVars, public_events, game_history, worldVars, public_view,
                 recent_actions, queue, action_results, current_gamemaster_updates>>

\* Step 4: _update_research_projects
ResearchTick ==
  /\ pc = "resolve"
  /\ queue = <<>>
  /\ SetWorld(_update_research_projects(World, current_date))
  /\ pc' = "events"
  /\ UNCHANGED <<gofish, calc, scenario, turn, round_count, loopVars, actions, unaccepted, clockVars,
                 public_events, game_history, public_view, recent_actions, queue,
                 action_results, current_gamemaster_updates>>

\* _simulate_information_leaks, _introduce_random_events, _introduce_fixed_events
\* (the scenarios pass fixed_events = {})
WorldEvents ==
  /\ pc = "events"
  /\ \E leaked \in
         {None} \cup (IF LeaksEnabled(scenario) /\ Len(public_events) < MaxEvents
                      THEN Players ELSE {}) :
       \E drawn \in
           {0} \cup (IF Len(public_events) < MaxEvents
                     THEN 1..Len(random_events(scenario)) ELSE {}) :
         LET e1 == IF leaked = None THEN public_events
                   ELSE Append(public_events, LeakInfo(leaked))
         IN public_events' =
              IF drawn = 0 \/ Len(e1) >= MaxEvents THEN e1
              ELSE Append(e1, RandomEvent(round_number, random_events(scenario)[drawn]))
  /\ pc' = "updates"
  /\ UNCHANGED <<gofish, calc, scenario, turn, round_count, loopVars, actions, unaccepted, clockVars,
                 game_history, worldVars, public_view, recent_actions, queue,
                 action_results, current_gamemaster_updates>>

\* The broadcasts of a round, built without recording the round summary
CreateUpdateMessages_without_summary ==
  /\ pc = "updates"
  /\ LET action_summary ==
           _create_action_summary(round_number, current_date, action_results,
                                  public_events)
     IN /\ game_history' = game_history
        /\ current_gamemaster_updates' =
             [q \in Players |->
                UpdateMessage(current_time,
                              PlayerUpdates(q, World, action_results, action_summary))]
  /\ current_time' = current_date
  /\ pc' = "deliver"
  /\ turn' = 1
  /\ UNCHANGED <<gofish, calc, scenario, round_count, loopVars, actions, unaccepted, round_number,
                 current_date, public_events, worldVars, public_view,
                 recent_actions, queue, action_results>>

\* _create_update_messages, then current_time = game_state.current_date
CreateUpdateMessages ==
  /\ pc = "updates"
  /\ LET action_summary ==
           _create_action_summary(round_number, current_date, action_results,
                                  public_events)
     IN /\ game_history' = Append(game_history, action_summary)
        /\ current_gamemaster_updates' =
             [q \in Players |->
                UpdateMessage(current_time,
                              PlayerUpdates(q, World, action_results, action_summary))]
  /\ current_time' = current_date
  /\ pc' = "deliver"
  /\ turn' = 1
  /\ UNCHANGED <<gofish, calc, scenario, round_count, loopVars, actions, unaccepted, round_number,
                 current_date, public_events, worldVars, public_view,
                 recent_actions, queue, action_results>>

\* run_simulation: player.update_state(current_gamemaster_updates[player.name]);
\* get_game_ending() returns None, so the loop goes on
DeliverUpdate ==
  /\ pc = "deliver"
  /\ Deliver(PlayerOrder[turn], current_gamemaster_updates[PlayerOrder[turn]])
  /\ IF turn < Len(PlayerOrder)
     THEN /\ turn' = turn + 1
          /\ pc' = pc
     ELSE /\ turn' = 1
          /\ pc' = "loop"
  /\ UNCHANGED <<gofish, calc, scenario, round_count, loopVars, actions, unaccepted, clockVars,
                 public_events, game_history, queue, action_results,
                 current_gamemaster_updates>>

Next ==
  \/ InitialBroadcast
  \/ BeginRound
  \/ ProposeActions
  \/ ProposeRaises
  \/ AcceptMove
  \/ RequestCorrection
  \/ CorrectionRaises
  \/ NextAttempt
  \/ ReturnMoves
  \/ IncrementRound
  \/ ResolveNext
  \/ ResolveRaises
  \/ ResearchTick
  \/ WorldEvents
  \/ CreateUpdateMessages
  \/ DeliverUpdate
  \/ EndSimulation

Spec == Init /\ [][Next]_vars

\* ------------------------------------------------------------------------
\* AssetBalance arithmetic on its own: a.add(b), then .subtract(b)
\* ------------------------------------------------------------------------
MaxOperand == 3         \* largest small whole number among the operands

Doubles ==
  {Double(0, n) : n \in 0..MaxOperand} \cup {Double(double_exact_hi, 0)}

Balances == {AssetBalance(t, c, h) : t \in {Double(0, 0)}, c \in Doubles, h \in Doubles}

gameVars ==
  <<scenario, pc, turn, round_count, attempt, moves_to_validate, valid_moves,
    current_move_index, actions, unaccepted, round_number, current_date,
    current_time, public_events, game_history, true_asset_balance, budget,
    projects, heap, espionage, inbox, public_view, recent_actions, queue,
    action_results, current_gamemaster_updates>>

InitCalc ==
  /\ scenario = "research"
  /\ Setup
  /\ gofish = IdleGoFish
  /\ \E a \in Balances, b \in Balances :
       calc = [op |-> "start", a |-> a, b |-> b, r |-> a]

\* r = a.add(b)
CalcAdd ==
  /\ calc.op = "start"
  /\ calc' = [calc EXCEPT !.op = "added", !.r = AssetBalance_add(calc.a, calc.b)]
  /\ UNCHANGED <<gameVars, gofish>>

\* r = r.subtract(b)
CalcSubtract ==
  /\ calc.op = "added"
  /\ calc' = [calc EXCEPT !.op = "done", !.r = AssetBalance_subtract(calc.r, calc.b)]
  /\ UNCHANGED <<gameVars, gofish>>

NextCalc ==
  \/ CalcAdd
  \/ CalcSubtract

SpecCalc == InitCalc /\ [][NextCalc]_vars

\* ------------------------------------------------------------------------
\* Helpers of the properties
\* ------------------------------------------------------------------------
Range(seq) == {seq[i] : i \in DOMAIN seq}
LastOf(seq) == seq[Len(seq)]

\* ------------------------------------------------------------------------
\* Go Fish (new_architecture_draft.py): cards, dealing, the rule-based player
\* ------------------------------------------------------------------------
MaxRanks == 4           \* number of ranks in the deck (CARD_RANKS lists 13)
MaxGoFishRounds == 6    \* cap on run_simulation's round_count in Go Fish
MaxGoFishPlayers == 3   \* largest n_players set up

NumSuits == 4                       \* CARD_SUITS
GoFish_max_rounds == 1000           \* GoFishGameMaster.run_simulation
GoFish_max_attempts == 5            \* GoFishGameMaster.get_player_move
timestep_seconds == 1               \* GoFishScenario: default_timestep

CARD_RANKS == 1..MaxRanks
Card(rank, suit) == <<rank, suit>>
get_rank(card) == card[1]

\* create_deck: rank by rank, the suits of a rank together
create_deck ==
  [i \in 1..(MaxRanks * NumSuits) |->
     Card(((i - 1) \div NumSuits) + 1, ((i - 1) % NumSuits) + 1)]

Reversed(seq) == [i \in 1..Len(seq) |-> seq[Len(seq) + 1 - i]]

\* random_gen.shuffle(deck): some of the orders the shuffle can produce
Shuffles ==
  LET suit_by_suit ==
        [i \in 1..(MaxRanks * NumSuits) |->
           Card(((i - 1) % MaxRanks) + 1, ((i - 1) \div MaxRanks) + 1)]
  IN {create_deck, Reversed(create_deck), suit_by_suit, Reversed(suit_by_suit)}

\* list.remove(x): the first occurrence goes
RECURSIVE RemoveFirst(_, _)
RemoveFirst(seq, x) ==
  IF seq = <<>> THEN <<>>
  ELSE IF Head(seq) = x THEN Tail(seq)
  ELSE <<Head(seq)>> \o RemoveFirst(Tail(seq), x)

RECURSIVE RemoveEach(_, _)
RemoveEach(seq, xs) ==
  IF xs = <<>> THEN seq ELSE RemoveEach(RemoveFirst(seq, Head(xs)), Tail(xs))

\* the keys of a rank -> count dict built by scanning the hand: the ranks in
\* the order of their first card
RECURSIVE RanksInOrder(_)
RanksInOrder(hand) ==
  IF hand = <<>> THEN <<>>
  ELSE <<get_rank(Head(hand))>>
         \o RanksInOrder(SelectSeq(Tail(hand),
                                   LAMBDA c : get_rank(c) # get_rank(Head(hand))))

CardsOfRank(hand, rank) == SelectSeq(hand, LAMBDA c : get_rank(c) = rank)

\* "Find and remove sets of 4": for every rank counted four times or more the
\* first four cards of it leave the hand and form a revealed set
RECURSIVE LaySets(_, _, _, _)
LaySets(ranks, hand, sets, removed) ==
  IF ranks = <<>>
  THEN [hand |-> hand, own_revealed_sets |-> sets, removed |-> removed]
  ELSE LET of_rank == CardsOfRank(hand, Head(ranks))
           set_cards == SubSeq(of_rank, 1, 4)
       IN IF Len(of_rank) >= 4
          THEN LaySets(Tail(ranks), RemoveEach(hand, set_cards),
                       Append(sets, set_cards), removed \o set_cards)
          ELSE LaySets(Tail(ranks), hand, sets, removed)

\* for _ in range(cards_per_player): if draw_pile: hand.append(draw_pile.pop())
RECURSIVE DealCards(_, _, _)
DealCards(pile, hand, k) ==
  IF k = 0 \/ pile = <<>> THEN [draw_pile |-> pile, hand |-> hand]
  ELSE DealCards(SubSeq(pile, 1, Len(pile) - 1), Append(hand, pile[Len(pile)]), k - 1)

cards_per_player(n) == IF n <= 2 THEN 7 ELSE 5

\* the hands of players 1..n dealt in turn from the pile
RECURSIVE DealAll(_, _, _, _)
DealAll(pile, hands, i, n) ==
  IF i > n THEN [draw_pile |-> pile, hand |-> hands]
  ELSE LET dealt == DealCards(pile, <<>>, cards_per_player(n))
       IN DealAll(dealt.draw_pile, Append(hands, dealt.hand), i + 1, n)

\* GoFishPlayerProposedMove; 0 stands for the empty string
ProposedMove(name, rank) ==
  [request_card_from_player_name |-> name, requested_card |-> rank]
EmptyMove == ProposedMove(0, 0)

\* dict.get(key, default)
Get(dict, key, default) == IF key \in DOMAIN dict THEN dict[key] ELSE default

\* what update_state stored in action_history under the last timestamp
History(requested, received, sizes) ==
  [other_players_requested_cards |-> requested,
   other_players_recieved_cards |-> received,
   other_players_hand_sizes |-> sizes]
EmptyDict == [k \in {} |-> <<>>]
EmptyHistory == History(EmptyDict, EmptyDict, EmptyDict)

\* propose_actions: the score of asking player_name for rank, in tenths
Score(g, p, rank, player_name) ==
  LET latest_history == g.latest_history[p]
      recent_requests == Get(latest_history.other_players_requested_cards, player_name, <<>>)
      recent_received == Get(latest_history.other_players_recieved_cards, player_name, <<>>)
      hand_size == Get(latest_history.other_players_hand_sizes, player_name, 0)
  IN (IF \E i \in DOMAIN recent_requests : recent_requests[i] = rank THEN 30 ELSE 0)
       + (IF \E i \in DOMAIN recent_received : get_rank(recent_received[i]) = rank
          THEN 50 ELSE 0)
       + (IF hand_size > 0 THEN hand_size ELSE 0)

GoFishPlayer_propose_actions(g, p) ==
  LET hand == g.hand[p]
      ranks == RanksInOrder(hand)
      ranks_to_complete ==
        SelectSeq(ranks, LAMBDA r : 1 <= Len(CardsOfRank(hand, r))
                                      /\ Len(CardsOfRank(hand, r)) < 4)
      target_ranks == IF ranks_to_complete # <<>> THEN ranks_to_complete ELSE ranks
      other_players == g.other_players[p]
      count == Len(target_ranks) * Len(other_players)
      RankAt(k) == target_ranks[((k - 1) \div Len(other_players)) + 1]
      PlayerAt(k) == other_players[((k - 1) % Len(other_players)) + 1]
      ScoreAt(k) == Score(g, p, RankAt(k), PlayerAt(k))
      best == CHOOSE k \in 1..count :
                /\ \A j \in 1..count : ScoreAt(j) <= ScoreAt(k)
                /\ \A j \in 1..(k - 1) : ScoreAt(j) < ScoreAt(k)
  IN IF hand = <<>> THEN EmptyMove
     ELSE IF other_players = <<>> THEN EmptyMove
     ELSE IF ScoreAt(best) <= 0
          THEN ProposedMove(other_players[1], target_ranks[1])
          ELSE ProposedMove(PlayerAt(best), RankAt(best))

\* correct_moves: the correction carries the rejected move; it is returned
\* again when both of its fields are non-empty, else the player proposes anew
GoFishPlayer_correct_moves(g, p, correction) ==
  IF correction.request_card_from_player_name # 0 /\ correction.requested_card # 0
  THEN ProposedMove(correction.request_card_from_player_name,
                    correction.requested_card)
  ELSE GoFishPlayer_propose_actions(g, p)

\* _validate_move: None or the error message
_validate_move(g, p, move) ==
  IF g.hand[p] = <<>> THEN "You have no cards in your hand"
  ELSE IF move.request_card_from_player_name \notin 1..g.n_players
       THEN "Player does not exist"
  ELSE IF move.request_card_from_player_name = p
       THEN "You cannot ask yourself for a card"
  ELSE IF g.hand[move.request_card_from_player_name] = <<>>
       THEN "Target has no cards in their hand"
  ELSE IF move.requested_card = 0 \/ move.requested_card \notin CARD_RANKS
       THEN "Invalid card rank"
  ELSE None

\* get_player_move: propose, validate, ask for a correction, validate again,
\* at most max_attempts times; the last move is returned even if it is invalid
RECURSIVE GetPlayerMoveFrom(_, _, _)
GetPlayerMoveFrom(g, p, tried) ==
  LET move == GoFishPlayer_propose_actions(g, p)
      corrected == GoFishPlayer_correct_moves(g, p, move)
  IN IF _validate_move(g, p, move) = None THEN move
     ELSE IF _validate_move(g, p, corrected) = None THEN corrected
     ELSE IF tried + 1 >= GoFish_max_attempts THEN corrected
     ELSE GetPlayerMoveFrom(g, p, tried + 1)

GoFish_get_player_move(g, p) == GetPlayerMoveFrom(g, p, 0)

\* Some required component exceeds the owner's true balance
Exceeds(a, w) ==
  \/ w.true_asset_balance[a.who].technical_capability < a.req.technical_capability
  \/ w.true_asset_balance[a.who].capital < a.req.capital
  \/ w.true_asset_balance[a.who].human < a.req.human

\* A space of CreateResearchProject requests, affordable and not
CreateRequests ==
  {CreateResearchProject(who, "N", annual, AssetBalance(t, c, h)) :
     who \in Players, annual \in {20}, t \in {0, 20},
     c \in {0, 50, 1000}, h \in {0, 50}}

\* ------------------------------------------------------------------------
\* C1: the propose/validate/correct loop of get_player_move stays within the
\* retry bound and ends, for every proposal, with an accepted action or with
\* the last attempted action: whatever was still unaccepted when the loop
\* ended is part of what get_player_move returned.
\* ------------------------------------------------------------------------
C1_EndsWithAcceptedOrLastAttempted ==
  /\ attempt < max_attempts
  /\ \A q \in Players : \A i \in DOMAIN unaccepted[q] :
       unaccepted[q][i] \in Range(actions[q])

\* The part of C1 the code keeps: the attempt counter stays below the bound,
\* the index stays within the proposal, and an unfinished loop can always step.
C1_LoopBounded ==
  /\ attempt < max_attempts
  /\ current_move_index <= Len(moves_to_validate) + 1
  /\ Len(moves_to_validate) + Len(valid_moves) <= MaxMoves
  /\ pc \in {"propose", "validate"} => ENABLED Next

C3_UnaffordableCreateRejected ==
  [][LET w == World
     IN /\ pc \in {"propose", "resolve"} =>
             \A a \in CreateRequests \cup Range(queue) :
               (a.kind = "create_research_project" /\ Exceeds(a, w)) =>
                 /\ validate_action(a, w, current_date) # None
                 /\ \A now \in WallClock(scenario) :
                      LET out == process_single_action(a, w, current_date,
                                                       round_number, FALSE, now)
                      IN /\ out.result[1] = "Fail"
                         /\ out.w = w
        /\ (/\ ResolveNext
            /\ Head(queue).kind = "create_research_project"
            /\ Exceeds(Head(queue), w)) =>
             /\ UNCHANGED worldVars
             /\ LastOf(action_results'[Head(queue).who])[1] = "Fail"]_vars

\* the resolver has just refused a request it found unaffordable
C3_Witness ==
  /\ pc = "resolve"
  /\ action_results["P1"] # <<>>
  /\ LastOf(action_results["P1"]) =
       Result("Fail", "Insufficient resources to start research project")

\* ------------------------------------------------------------------------
\* C4 (as stated): every resolution of an accepted CreateResearchProject takes
\* exactly the committed assets off the owner's true balance and exactly the
\* annual budget off the owner's budget of the current year.
\* ------------------------------------------------------------------------
C4_AcceptedCreateDeductsExactly ==
  [][(ResolveNext /\ Head(queue).kind = "create_research_project") =>
       LET a == Head(queue)
           y == Year(current_date)
       IN /\ true_asset_balance'[a.who] = subtract(true_asset_balance[a.who], a.req)
          /\ BudgetGet(budget'[a.who], y) = BudgetGet(budget[a.who], y) - a.amount]_vars

\* The resolver's own affordability test at resolution time
AffordableAtResolution(a) ==
  /\ ~Exceeds(a, World)
  /\ BudgetGet(budget[a.who], Year(current_date)) >= a.amount

\* C4 (amended): an accepted CreateResearchProject that is still affordable when
\* the resolver reaches it takes exactly the committed assets off the owner's
\* true balance and exactly the annual budget off the owner's budget of the year
\* of the resolution date, and adds one active project; one that is no longer
\* affordable (an earlier action of the batch spent the assets, or the date
\* moved into a year without budget) changes nothing.
C4_AffordableCreateDeductsExactly ==
  [][(ResolveNext /\ Head(queue).kind = "create_research_project") =>
       LET a == Head(queue)
           y == Year(current_date)
       IN IF AffordableAtResolution(a)
          THEN /\ true_asset_balance'[a.who].technical_capability =
                    true_asset_balance[a.who].technical_capability
                      - a.req.technical_capability
               /\ true_asset_balance'[a.who].capital =
                    true_asset_balance[a.who].capital - a.req.capital
               /\ true_asset_balance'[a.who].human =
                    true_asset_balance[a.who].human - a.req.human
               /\ BudgetGet(budget'[a.who], y) = BudgetGet(budget[a.who], y) - a.amount
               /\ \A z \in DOMAIN budget[a.who] \ {y} :
                    budget'[a.who][z] = budget[a.who][z]
               /\ Len(projects'[a.who]) = Len(projects[a.who]) + 1
               /\ \E now \in WallClock(scenario) :
                    heap'[LastOf(projects'[a.who])] = NewProject(a, current_date, now)
               /\ \A q \in Players \ {a.who} :
                    /\ true_asset_balance'[q] = true_asset_balance[q]
                    /\ budget'[q] = budget[q]
          ELSE UNCHANGED worldVars]_vars

\* an accepted creation has just been resolved successfully
C4_Witness ==
  /\ pc = "resolve"
  /\ action_results["P1"] # <<>>
  /\ LastOf(action_results["P1"]) = Result("Success", "Created research project")
  /\ heap # <<>>
  /\ true_asset_balance["P1"].capital < StartBalance(scenario)["P1"].capital

\* ------------------------------------------------------------------------
\* C5: resolving a CancelResearchProject while the initiator has an active
\* project of that name sets that project's status to cancelled and adds
\* committed assets x refund_rate to the owner's true balance, componentwise.
\* ------------------------------------------------------------------------
C5_CancelRefunds ==
  [][(/\ ResolveNext
      /\ Head(queue).kind = "cancel_research_project"
      /\ FirstActiveNamed(World, Head(queue).who, Head(queue).name) # 0) =>
       LET a == Head(queue)
           ref == projects[a.who][FirstActiveNamed(World, a.who, a.name)]
           ca == heap[ref].committed_assets
           before == true_asset_balance[a.who]
           after == true_asset_balance'[a.who]
       IN /\ heap[ref].status = "active"
          /\ heap'[ref].status = "cancelled"
          /\ heap'[ref].progress = heap[ref].progress
          /\ refund_rate_den * (after.technical_capability - before.technical_capability)
               = refund_rate_num * ca.technical_capability
          /\ refund_rate_den * (after.capital - before.capital)
               = refund_rate_num * ca.capital
          /\ refund_rate_den * (after.human - before.human)
               = refund_rate_num * ca.human
          /\ budget' = budget]_vars

\* a cancellation has just been resolved and refunded
C5_Witness ==
  /\ pc = "resolve"
  /\ action_results["P1"] # <<>>
  /\ LastOf(action_results["P1"]) = Result("Success", "Cancelled research project")
  /\ \E ref \in DOMAIN heap : heap[ref].status = "cancelled"

\* ------------------------------------------------------------------------
\* C6: in every step the progress of a project does not decrease, a project
\* becomes completed only in a step that takes its progress to 1.0 (and an
\* active project whose progress is at 1.0 after the step is completed), and a
\* completed project keeps its status and progress.
\* ------------------------------------------------------------------------
C6_ProgressMonotoneCompletedOnce ==
  [][\A ref \in DOMAIN heap :
       /\ heap'[ref].progress >= heap[ref].progress
       /\ (heap[ref].status # "completed" /\ heap'[ref].status = "completed") =>
            (heap[ref].progress < 100 /\ heap'[ref].progress >= 100)
       /\ (heap[ref].status = "active" /\ heap'[ref].progress >= 100) =>
            heap'[ref].status = "completed"
       /\ heap[ref].status = "completed" =>
            (heap'[ref].status = "completed" /\ heap'[ref].progress >= 100)]_vars

\* ------------------------------------------------------------------------
\* C7: a project whose status is completed or cancelled keeps its status and
\* its progress in every later step.
\* ------------------------------------------------------------------------
C7_FinishedProjectsFrozen ==
  [][\A ref \in DOMAIN heap :
       heap[ref].status \in {"completed", "cancelled"} =>
         /\ heap'[ref].status = heap[ref].status
         /\ heap'[ref].progress = heap[ref].progress]_vars

\* ------------------------------------------------------------------------
\* C8: resolving an espionage action changes nothing of the target's state
\* (true balance, budget, projects, inbox, espionage log, public view); only
\* the initiator's budget and espionage log change.
\* ------------------------------------------------------------------------
C8_EspionageLeavesTargetAlone ==
  [][(/\ ResolveNext
      /\ Head(queue).kind = "espionage"
      /\ Head(queue).target \in Players) =>
       LET a == Head(queue)
       IN /\ true_asset_balance'[a.target] = true_asset_balance[a.target]
          /\ budget'[a.target] = budget[a.target]
          /\ projects'[a.target] = projects[a.target]
          /\ inbox'[a.target] = inbox[a.target]
          /\ espionage'[a.target] = espionage[a.target]
          /\ public_view'[a.target] = public_view[a.target]
          /\ heap' = heap
          /\ \A q \in Players \ {a.who} :
               /\ budget'[q] = budget[q]
               /\ espionage'[q] = espionage[q]
          /\ true_asset_balance' = true_asset_balance
          /\ projects' = projects
          /\ inbox' = inbox]_vars

\* ------------------------------------------------------------------------
\* C9: when A's espionage on B failed in a round, nothing in B's broadcast of
\* that round (action results, espionage results, new messages, public
\* events, global summary) records the attempt.
\* ------------------------------------------------------------------------
FailedEspionageOn(target) == ResultOn("Fail", "Conducted espionage on", target)

C9_FailedEspionageHiddenFromTarget ==
  \A A \in Players : \A B \in Players \ {A} :
    (pc = "deliver" /\ FailedEspionageOn(B) \in Range(action_results[A])) =>
      LET u == current_gamemaster_updates[B].state_updates
      IN /\ u.action_results = Flatten(action_results[B])
         /\ u.espionage_results = <<>>
         /\ \A i \in DOMAIN u.new_messages :
              u.new_messages[i].content # FailedEspionageOn(B)
         /\ \A i \in DOMAIN u.public_events : u.public_events[i].event # "espionage"
         /\ \A q \in Players :
              FailedEspionageOn(B) \notin Range(u.global_summary.results[q])

\* ------------------------------------------------------------------------
\* C10: resolving InvestCapital with amount a while the initiator's budget of
\* the current year is at least a takes exactly a off that budget and adds
\* exactly a x efficiency to capital; from budget 1,000,000 and no assets,
\* amount 500,000 at efficiency 0.9 leaves budget 500,000 and capital 450,000.
\* ------------------------------------------------------------------------
C10_InvestCapitalExact ==
  [][(/\ ResolveNext
      /\ Head(queue).kind = "invest_capital"
      /\ BudgetGet(budget[Head(queue).who], Year(current_date)) >= Head(queue).amount) =>
       LET a == Head(queue)
           y == Year(current_date)
       IN /\ BudgetGet(budget'[a.who], y) = BudgetGet(budget[a.who], y) - a.amount
          /\ invest_efficiency_den
               * (true_asset_balance'[a.who].capital - true_asset_balance[a.who].capital)
               = invest_efficiency_num * a.amount
          /\ true_asset_balance'[a.who].technical_capability =
               true_asset_balance[a.who].technical_capability
          /\ true_asset_balance'[a.who].human = true_asset_balance[a.who].human
          /\ (/\ a = InvestCapital("P1", 500000)
              /\ budget["P1"] = (2024 :> 1000000)
              /\ true_asset_balance["P1"] = ZeroBalance) =>
               /\ budget'["P1"] = (2024 :> 500000)
               /\ true_asset_balance'["P1"] = AssetBalance(0, 450000, 0)]_vars

\* P1 started with budget 1,000,000 and nothing else and its investment of
\* 500,000 has just been resolved
C10_Witness ==
  /\ scenario = "invest"
  /\ pc = "resolve"
  /\ round_number = 1
  /\ action_results["P1"] =
       <<Result("Success", "Invested in capital improvements")>>
  /\ budget["P1"] = (2024 :> 500000)
  /\ true_asset_balance["P1"] = AssetBalance(0, 450000, 0)

\* ------------------------------------------------------------------------
\* C11: a successful PoachTalent takes exactly
\* min(target human capital x transfer_rate, max_transfer) human capital from
\* the target and gives the same amount to the initiator (taking from and
\* giving to the same participant when the target is the initiator); with
\* rate 0.1, cap 5 and a target holding 40, exactly 4 moves.
\* ------------------------------------------------------------------------
C11_PoachMovesExactAmount ==
  [][(/\ ResolveNext
      /\ Head(queue).kind = "poach_talent"
      /\ LastOf(action_results'[Head(queue).who]) =
           ResultOn("Success", "Poached talent from", Head(queue).target)
      /\ Len(action_results'[Head(queue).who]) > Len(action_results[Head(queue).who])) =>
       LET a == Head(queue)
           h == true_asset_balance[a.target].human
           moved == IF a.target = a.who THEN 0
                    ELSE h - true_asset_balance'[a.target].human
       IN /\ a.target # a.who =>
               /\ IF transfer_rate_num * h <= max_transfer * transfer_rate_den
                  THEN transfer_rate_den * moved = transfer_rate_num * h
                  ELSE moved = max_transfer
               /\ h = 40 => moved = 4
          /\ true_asset_balance'[a.who].human =
               true_asset_balance[a.who].human + moved
          /\ \A q \in Players :
               /\ true_asset_balance'[q].capital = true_asset_balance[q].capital
               /\ true_asset_balance'[q].technical_capability =
                    true_asset_balance[q].technical_capability
               /\ q \notin {a.who, a.target} =>
                    true_asset_balance'[q] = true_asset_balance[q]]_vars

\* P1's poaching of P2, who held 40, has just succeeded
C11_Witness ==
  /\ scenario = "poach"
  /\ pc = "resolve"
  /\ action_results["P1"] # <<>>
  /\ LastOf(action_results["P1"]) = ResultOn("Success", "Poached talent from", "P2")
  /\ true_asset_balance["P2"].human = 36
  /\ true_asset_balance["P1"].human = 44

\* ------------------------------------------------------------------------
\* C12 (as stated): for all AssetBalance values a and b, a.add(b).subtract(b)
\* equals a in every component.
\* ------------------------------------------------------------------------
C12_AddSubtractRoundTrip ==
  calc.op = "done" => calc.r = calc.a

\* Every component sum of a and b is a double (whole and below 2^53)
SumsExact(a, b) ==
  /\ Normalise(a.technical_capability.hi + b.technical_capability.hi,
               a.technical_capability.lo + b.technical_capability.lo).hi < double_exact_hi
  /\ Normalise(a.capital.hi + b.capital.hi, a.capital.lo + b.capital.lo).hi
       < double_exact_hi
  /\ Normalise(a.human.hi + b.human.hi, a.human.lo + b.human.lo).hi < double_exact_hi

\* C12 (amended): for AssetBalance values a and b whose componentwise sums are
\* exactly representable as floats (such as whole numbers with sums below
\* 2^53), a.add(b).subtract(b) equals a in every component; when a sum has to
\* be rounded the round trip may return a different balance.
C12_ExactAddSubtractRoundTrip ==
  (calc.op = "done" /\ SumsExact(calc.a, calc.b)) => calc.r = calc.a

\* a round trip with nonzero operands and exact sums has been computed
C12_Witness ==
  /\ calc.op = "done"
  /\ calc.a.capital = Double(0, 1)
  /\ calc.b.capital = Double(0, 3)
  /\ calc.b.human = Double(0, 2)
  /\ SumsExact(calc.a, calc.b)
  /\ calc.r = calc.a

\* ------------------------------------------------------------------------
\* C13: a corrected proposal returned by correct_moves is validated again,
\* and one that passes validation is accepted into the round's batch: no
\* proposal that passes validation is left unaccepted when get_player_move
\* returns.
\* ------------------------------------------------------------------------
C13_ValidCorrectionAccepted ==
  pc \in {"propose", "validate", "simulate"} =>
    \A q \in Players : \A i \in DOMAIN unaccepted[q] :
      validate_action(unaccepted[q][i], World, current_date) = None =>
        unaccepted[q][i] \in Range(actions[q])

\* ------------------------------------------------------------------------
\* C14: when the retries are used up and the last attempted proposal is still
\* invalid, it is accepted as it is: get_player_move returns it and it is
\* handed to round resolution.
\* ------------------------------------------------------------------------
C14_ExhaustedProposalAcceptedAsIs ==
  pc \in {"propose", "validate", "simulate"} =>
    \A q \in Players : \A i \in DOMAIN unaccepted[q] :
      validate_action(unaccepted[q][i], World, current_date) # None =>
        unaccepted[q][i] \in Range(actions[q])

\* ------------------------------------------------------------------------
\* C15: starting from non-negative budgets and balances and resolving only
\* actions that passed validation, every participant's budget of every
\* period and every component of its true asset balance stays non-negative.
\* ------------------------------------------------------------------------
C15_BalancesStayNonNegative ==
  \A q \in Players :
    /\ true_asset_balance[q].technical_capability >= 0
    /\ true_asset_balance[q].capital >= 0
    /\ true_asset_balance[q].human >= 0
    /\ \A y \in DOMAIN budget[q] : budget[q][y] >= 0

\* The private project list of a participant, as the list of its project objects
ProjectList(h, list) == [i \in DOMAIN list |-> h[list[i]]]

\* ------------------------------------------------------------------------
\* C16: delivering a round's broadcast (update_state) re-applies nothing: the
\* participant's true asset balance, budget and private project list after
\* the delivery equal their values just before it.
\* ------------------------------------------------------------------------
C16_DeliveryReappliesNothing ==
  [][DeliverUpdate =>
       LET who == PlayerOrder[turn]
       IN /\ true_asset_balance'[who] = true_asset_balance[who]
          /\ budget'[who] = budget[who]
          /\ ProjectList(heap', projects'[who]) = ProjectList(heap, projects[who])]_vars

\* ------------------------------------------------------------------------
\* C17: once a round's broadcasts are delivered, the recipient's inbox holds
\* exactly one Message of that round for every BilateralMessage accepted in
\* the round (same sender, content and round number), never a duplicate.
\* ------------------------------------------------------------------------
C17_OneInboxEntryPerMessage ==
  (pc = "loop" /\ round_count >= 1) =>
    \A A \in Players : \A B \in Players :
      LET sent == SelectSeq(actions[A],
                            LAMBDA a : a.kind = "bilateral_message" /\ a.target = B)
          got == SelectSeq(inbox[B],
                           LAMBDA m : /\ m.from_character = A
                                      /\ m.round_number = round_number)
      IN /\ Len(got) = Len(sent)
         /\ \A i \in DOMAIN got : \E j \in DOMAIN sent : got[i].content = sent[j].name

\* ------------------------------------------------------------------------
\* C19: in each round the accepted actions of all participants are handed to
\* the resolvers kind by kind: every accepted action is handed over exactly
\* once, the actions of one kind form one batch (no action of another kind in
\* between) holding all accepted actions of that kind in submission order,
\* and the round goes on only when every batch is resolved.
\* ------------------------------------------------------------------------
C19_EachKindResolvedOnceWithAll ==
  [][/\ IncrementRound =>
         LET all == ConcatActions(1)
             q == queue'
         IN /\ Len(q) = Len(all)
            /\ \A a \in Range(all) :
                 SelectSeq(q, LAMBDA x : x.kind = a.kind)
                   = SelectSeq(all, LAMBDA x : x.kind = a.kind)
            /\ \A i \in DOMAIN q : \A k \in DOMAIN q :
                 (i < k /\ q[i].kind = q[k].kind) =>
                   \A j \in i..k : q[j].kind = q[i].kind
     /\ ResolveNext => queue' = Tail(queue)
     /\ (pc = "resolve" /\ pc' = "events") => queue = <<>>]_vars

\* A round whose accepted actions arrive interleaved by kind and are regrouped
C19_Witness ==
  /\ pc = "resolve"
  /\ Len(queue) >= 3
  /\ queue = GroupByType(ConcatActions(1))
  /\ queue # ConcatActions(1)

\* ------------------------------------------------------------------------
\* C18: every round appends exactly one round summary to game_history, and
\* does so before the round's broadcasts are delivered: while the broadcasts
\* of round k are delivered and after them the history holds k summaries (the
\* k-th being the one the broadcasts carry), before that it holds k - 1, and
\* when the simulation returns it holds one summary per round played.
\* ------------------------------------------------------------------------
C18_OneSummaryPerRoundBeforeBroadcast ==
  /\ pc \in {"start", "loop", "deliver", "done"} => Len(game_history) = round_count
  /\ pc \in {"propose", "validate", "simulate", "resolve", "events", "updates"} =>
       Len(game_history) = round_count - 1
  /\ \A k \in DOMAIN game_history : game_history[k].round = k
  /\ pc = "deliver" =>
       \A q \in Players :
         current_gamemaster_updates[q].state_updates.global_summary
           = LastOf(game_history)

\* The last round's broadcasts are being delivered with all summaries recorded
C18_Witness ==
  /\ pc = "deliver"
  /\ turn = Len(PlayerOrder)
  /\ round_count = max_rounds
  /\ Len(game_history) = max_rounds

\* ------------------------------------------------------------------------
\* C20: validate_action only reads.  A validation step of get_player_move,
\* whether it accepts the candidate or rejects it, leaves the global round
\* state (round number, date, public events, history) and every participant's
\* state (balances, budgets, projects, espionage records, inbox, public view,
\* recent actions) as they were.
\* ------------------------------------------------------------------------
C20_ValidationOnlyReads ==
  [][(AcceptMove \/ RequestCorrection) =>
       UNCHANGED <<round_number, current_date, current_time, public_events,
                   game_history, true_asset_balance, budget, projects, heap,
                   espionage, inbox, public_view, recent_actions>>]_vars

\* One proposal in which a candidate was rejected and another accepted
C20_Witness ==
  /\ pc = "validate"
  /\ valid_moves # <<>>
  /\ current_move_index > 1

\* Requests of one participant that name the participant itself as target
SelfTargeted(q) ==
  {Espionage(q, q, 10), PoachTalent(q, q, 10), BilateralMessage(q, q, "hello")}

\* ------------------------------------------------------------------------
\* C21: validate_action returns a reason for every espionage, poach-talent or
\* bilateral-message action whose target is its initiator, so no such action
\* is ever among the accepted actions of a participant.
\* ------------------------------------------------------------------------
C21_SelfTargetRejected ==
  /\ \A q \in Players : \A a \in SelfTargeted(q) :
       validate_action(a, World, current_date) # None
  /\ \A q \in Players : \A i \in DOMAIN actions[q] :
       actions[q][i].kind \in {"espionage", "poach_talent", "bilateral_message"}
         => actions[q][i].target # q

\* Requests of one participant that carry a negative cost
NegativeCost(q) ==
  {Fundraise(q, -10), InvestCapital(q, -10), SellCapital(q, -10),
   Espionage(q, "P2", -10), PoachTalent(q, "P2", -10), Lobby(q, -10),
   Marketing(q, -10),
   CreateResearchProject(q, "N", -10, ZeroBalance),
   CreateResearchProject(q, "N", 0, AssetBalance(-10, 0, 0)),
   CreateResearchProject(q, "N", 0, AssetBalance(0, -10, 0)),
   CreateResearchProject(q, "N", 0, AssetBalance(0, 0, -10))}

IsNegativeCost(a) ==
  \/ a.amount < 0
  \/ a.req.technical_capability < 0
  \/ a.req.capital < 0
  \/ a.req.human < 0

\* ------------------------------------------------------------------------
\* C22: validate_action returns a reason for every action that carries a
\* negative amount, budget, annual budget or required asset component, so no
\* such action is ever among the accepted actions of a participant.
\* ------------------------------------------------------------------------
C22_NegativeCostRejected ==
  /\ \A q \in Players : \A a \in NegativeCost(q) :
       validate_action(a, World, current_date) # None
  /\ \A q \in Players : \A i \in DOMAIN actions[q] : ~IsNegativeCost(actions[q][i])

\* How far the run is from its end: rounds still to start, then the position
\* inside the round (proposal attempts of each participant, candidates still to
\* validate, actions still to resolve, broadcasts still to deliver)
StepsLeft ==
  LET rounds == (max_rounds - round_count) * 1000
      tries == (turn - 1) * max_attempts + attempt
  IN CASE pc = "start" -> (max_rounds + 1) * 1000 - turn
       [] pc = "loop" -> rounds + 100
       [] pc = "propose" -> rounds + 900 - 100 * tries + 99
       [] pc = "validate" ->
            rounds + 900 - 100 * tries + Len(moves_to_validate) - current_move_index + 1
       [] pc = "simulate" -> rounds + 300
       [] pc = "resolve" -> rounds + 200 + Len(queue)
       [] pc = "events" -> rounds + 150
       [] pc = "updates" -> rounds + 140
       [] pc = "deliver" -> rounds + 130 - turn
       [] OTHER -> 0

C24_MalformedResponseIsNoOp ==
  pc = "propose" =>
    \A r \in Responses(scenario, PlayerOrder[turn]) :
      /\ ~propose_actions(r).raised
      /\ r.items = <<>> => propose_actions(r).moves = <<>>

\* ------------------------------------------------------------------------
\* C25: whenever a candidate is rejected, correct_moves returns an action
\* whatever the revision capability answers on its attempts, so
\* get_player_move goes on and the run never ends with an exception there.
\* ------------------------------------------------------------------------
C25_CorrectionNeverAborts ==
  (/\ pc = "validate"
   /\ current_move_index <= Len(moves_to_validate)
   /\ validate_action(moves_to_validate[current_move_index], World, current_date) # None)
    => \A replies \in [1..player_max_attempts ->
                         CorrectionReplies(scenario, PlayerOrder[turn])] :
         LET out == correct_moves(moves_to_validate[current_move_index], replies)
         IN /\ ~out.raised
            /\ Len(out.moves) = 1

\* ------------------------------------------------------------------------
\* C26: a round is simulated wholly or not at all.  Unless simulate_one_round
\* is under way, the round counter equals the number of stored summaries and
\* no accepted action is waiting for its resolver; in particular a run that
\* ended with an exception did not leave a round half done.
\* ------------------------------------------------------------------------
C26_RoundWhollyDoneOrNotStarted ==
  pc \notin {"resolve", "events", "updates"} =>
    /\ round_number = Len(game_history)
    /\ queue = <<>>

IsPrefix(s, t) == Len(s) <= Len(t) /\ SubSeq(t, 1, Len(s)) = s

C28_AdvancedBeforeProposals ==
  pc \in {"propose", "validate", "simulate"} =>
    /\ round_number = round_count
    /\ current_date = StartDate(scenario) + round_count * timestep_days

\* ------------------------------------------------------------------------
\* C29  The keyword configuration of the scenario: BasicAIRaceScenario keeps
\* its keyword arguments in self.config; the integration test passes
\* max_rounds=2, every other scenario asks for the default of three rounds.
\* get_game_master reads only random_event_probability from it.
\* ------------------------------------------------------------------------
config(sc) ==
  [max_rounds |-> IF sc = "talk" THEN 2 ELSE 3]

\* C29: when run_simulation has returned, the number of rounds it ran is the
\* number the scenario was configured with, and the round counter of the
\* game state equals it.
C29_RunsConfiguredRounds ==
  pc = "done" =>
    /\ round_count = config(scenario).max_rounds
    /\ round_number = config(scenario).max_rounds

\* ------------------------------------------------------------------------
\* C30  The passive research tick
\* ------------------------------------------------------------------------
\* The progress one tick adds to a project, in hundredths
ProgressDelta(project) ==
  Min(research_progress_rate_base
        + (project.committed_assets.human * 100) \div research_human_scaling,
      research_progress_rate_max)

\* C30: the research step of a round gives every active project in every
\* player's list exactly one delta of progress, capped at 1.0, whether or not
\* the owner submitted an action this round; no other project changes progress.
C30_ActiveProjectsTickOnce ==
  [][ResearchTick =>
       \A q \in Players : \A i \in 1..Len(projects[q]) :
         LET project == heap[projects[q][i]]
         IN heap'[projects[q][i]].progress =
              IF project.status = "active"
              THEN Min(project.progress + ProgressDelta(project), 100)
              ELSE project.progress]_vars

\* ------------------------------------------------------------------------
\* C31  The recurring charge of the research step
\* ------------------------------------------------------------------------
\* The budget of the year after charging each project of refs once, in order,
\* skipping a project whose committed amount the budget no longer covers
RECURSIVE ChargeEachOnce(_, _, _)
ChargeEachOnce(b, refs, year) ==
  IF refs = <<>> THEN b
  ELSE LET amount == heap[Head(refs)].committed_budget
           rest == SelectSeq(Tail(refs), LAMBDA r : r # Head(refs))
       IN ChargeEachOnce(IF BudgetGet(b, year) >= amount
                         THEN BudgetSet(b, year, BudgetGet(b, year) - amount)
                         ELSE b,
                         rest, year)

ActiveRefs(q) == SelectSeq(projects[q], LAMBDA r : heap[r].status = "active")

\* C31: the research step charges each active project's committed annual
\* amount to its owner's budget of the current year once, and only when the
\* budget covers it; otherwise the budget stays as it is, and the project
\* gains progress in either case.
C31_TickChargesOnceIfCovered ==
  [][ResearchTick =>
       \A q \in Players :
         /\ budget'[q] = ChargeEachOnce(budget[q], ActiveRefs(q), Year(current_date))
         /\ \A i \in 1..Len(projects[q]) :
              LET project == heap[projects[q][i]]
              IN project.status = "active" =>
                   heap'[projects[q][i]].progress > project.progress]_vars

\* ------------------------------------------------------------------------
\* C32  Reproducibility of a round
\* ------------------------------------------------------------------------
\* C32: the order in which a round resolves the action kinds is a function of
\* the accepted actions, and the state a resolution step leaves is a function
\* of the state before it, the action and the seeded draw: it is the same
\* whatever the clock of the machine reads during the step.
C32_SameInputsSameState ==
  [][/\ IncrementRound => queue' = GroupByType(ConcatActions(1))
     /\ ResolveNext =>
          \E coin \in (IF UsesRandom(Head(queue)) THEN BOOLEAN ELSE {FALSE}) :
            \A now \in WallClock(scenario) :
              World' = process_single_action(Head(queue), World, current_date,
                                             round_number, coin, now).w]_vars

\* ------------------------------------------------------------------------
\* C33: the actions of one batch are resolved one after another in the order
\* of acceptance, each against the state the previous one left: an
\* InvestCapital whose amount the budget no longer covers when its turn comes
\* fails and changes nothing, and of two accepted investments of 500,000 and
\* 600,000 from a budget of 1,000,000 the one accepted first is applied and
\* the other fails with no deduction.
\* ------------------------------------------------------------------------
InvestFail == Result("Fail", "Insufficient budget for capital investment")
InvestSuccess == Result("Success", "Invested in capital improvements")

C33_BatchResolvedInOrderOnLiveState ==
  /\ [][(ResolveNext /\ Head(queue).kind = "invest_capital") =>
          LET a == Head(queue)
          IN /\ queue' = Tail(queue)
             /\ action_results'[a.who] =
                  Append(action_results[a.who],
                         IF BudgetGet(budget[a.who], Year(current_date)) < a.amount
                         THEN InvestFail ELSE InvestSuccess)
             /\ BudgetGet(budget[a.who], Year(current_date)) < a.amount =>
                  UNCHANGED worldVars]_vars
  /\ [](/\ scenario = "invest"
        /\ round_number = 1
        /\ pc = "resolve"
        /\ queue = <<>>
        => /\ actions["P1"] = <<InvestCapital("P1", 500000), InvestCapital("P1", 600000)>> =>
                /\ action_results["P1"] = <<InvestSuccess, InvestFail>>
                /\ budget["P1"] = (2024 :> 500000)
                /\ true_asset_balance["P1"] = AssetBalance(0, 450000, 0)
           /\ actions["P1"] = <<InvestCapital("P1", 600000), InvestCapital("P1", 500000)>> =>
                /\ action_results["P1"] = <<InvestSuccess, InvestFail>>
                /\ budget["P1"] = (2024 :> 400000)
                /\ true_asset_balance["P1"] = AssetBalance(0, 540000, 0))

\* both investments were accepted and the second has just failed
C33_Witness ==
  /\ scenario = "invest"
  /\ round_number = 1
  /\ pc = "resolve"
  /\ queue = <<>>
  /\ actions["P1"] = <<InvestCapital("P1", 500000), InvestCapital("P1", 600000)>>
  /\ action_results["P1"] = <<InvestSuccess, InvestFail>>
  /\ budget["P1"] = (2024 :> 500000)

\* ------------------------------------------------------------------------
\* C34  The charges of the creation round
\* ------------------------------------------------------------------------
\* The active projects of q that an earlier round created: a project has
\* progress 0 only until its first research step
EarlierActiveRefs(q) ==
  SelectSeq(projects[q],
            LAMBDA r : heap[r].status = "active" /\ heap[r].progress > 0)

\* C34: in the round that creates a project the owner's budget of the year
\* goes down by the creation charge only: the research step of that round
\* charges the projects of earlier rounds and leaves the new project uncharged.
C34_NoRecurringChargeInCreationRound ==
  [][ResearchTick =>
       \A q \in Players :
         budget'[q] =
           ChargeEachOnce(budget[q], EarlierActiveRefs(q), Year(current_date))]_vars

\* ------------------------------------------------------------------------
\* C35: the action results in a participant's round broadcast are the result
\* strings the resolvers produced for that participant's actions this round,
\* one whole string per resolved action, in resolution order, each tagged
\* Success or Fail.
\* ------------------------------------------------------------------------
C35_BroadcastCarriesWholeResults ==
  (pc = "deliver" /\ round_number >= 1) =>
    \A q \in Players :
      LET sent == current_gamemaster_updates[q].state_updates.action_results
      IN /\ sent = action_results[q]
         /\ \A i \in DOMAIN sent : sent[i][1] \in {"Success", "Fail"}

\* ------------------------------------------------------------------------
\* C36: when every action of a participant's first proposal of a round has
\* passed validation (all of them were moved to valid_moves, none is left in
\* moves_to_validate), get_player_move asks for no further proposal.
\* ------------------------------------------------------------------------
C36_AllValidFirstProposalReturned ==
  [][(NextAttempt /\ attempt = 0 /\ valid_moves # <<>>) =>
       moves_to_validate # <<>>]_vars

\* ------------------------------------------------------------------------
\* Go Fish: the game master
\* ------------------------------------------------------------------------
GoFishPlayers(g) == 1..g.n_players

\* GoFishGamemasterUpdateMessage with its GoFishPlayerStateUpdates
GoFishUpdateMessage(ts, new, removed, names, sizes, requested, received) ==
  [last_action_timestamp |-> ts, next_action_timestamp |-> ts + timestep_seconds,
   new_cards |-> new, removed_cards |-> removed, new_revealed_sets |-> names,
   other_players_hand_sizes |-> sizes,
   other_players_requested_cards |-> requested,
   other_players_recieved_cards |-> received]

\* the names a message carries revealed sets for, in order (the sets themselves
\* are the players' own lists, shared by reference)
AllNames(g) == [i \in 1..g.n_players |-> i]

HandSizesFor(g, p) == [q \in GoFishPlayers(g) \ {p} |-> Len(g.hand[q])]

GoFish_create_player_update_messages(g, p) ==
  GoFishUpdateMessage(g.current_time, <<>>, <<>>, AllNames(g), HandSizesFor(g, p),
                EmptyDict, EmptyDict)

\* for card in new_cards: if card not in hand: hand.append(card)
RECURSIVE AddNew(_, _)
AddNew(hand, cards) ==
  IF cards = <<>> THEN hand
  ELSE AddNew(IF \E i \in DOMAIN hand : hand[i] = Head(cards)
              THEN hand ELSE Append(hand, Head(cards)),
              Tail(cards))

\* for card in removed_cards: if card in hand: hand.remove(card)
RECURSIVE DropRemoved(_, _)
DropRemoved(hand, cards) ==
  IF cards = <<>> THEN hand
  ELSE DropRemoved(RemoveFirst(hand, Head(cards)), Tail(cards))

\* the keys of other_players_revealed_sets after the message's names are set
KnownPlayers(known, p, names) ==
  known \o SelectSeq(names, LAMBDA q : q # p /\ \A i \in DOMAIN known : known[i] # q)

\* A variant of update_state that appends the new cards without looking
GoFishPlayer_update_state_appending(g, p, msg) ==
  [g EXCEPT
     !.hand[p] = DropRemoved(@ \o msg.new_cards, msg.removed_cards),
     !.other_players[p] = KnownPlayers(@, p, msg.new_revealed_sets),
     !.latest_history[p] = History(msg.other_players_requested_cards,
                                   msg.other_players_recieved_cards,
                                   msg.other_players_hand_sizes)]

GoFishPlayer_update_state(g, p, msg) ==
  [g EXCEPT
     !.hand[p] = DropRemoved(AddNew(@, msg.new_cards), msg.removed_cards),
     !.other_players[p] = KnownPlayers(@, p, msg.new_revealed_sets),
     !.latest_history[p] = History(msg.other_players_requested_cards,
                                   msg.other_players_recieved_cards,
                                   msg.other_players_hand_sizes)]

\* GoFishScenario.get_game_master: shuffle, deal, lay the sets dealt, choose who
\* asks first
GoFish_get_game_master(n, deck, initial_player) ==
  LET dealt == DealAll(deck, <<>>, 1, n)
      laid == [p \in 1..n |->
                 LaySets(RanksInOrder(dealt.hand[p]), dealt.hand[p], <<>>, <<>>)]
  IN [pc |-> "start", n_players |-> n, turn |-> 1, round_count |-> 0,
      actions |-> EmptyDict,
      draw_pile |-> dealt.draw_pile,
      current_asking_player |-> initial_player,
      hand |-> [p \in 1..n |-> laid[p].hand],
      own_revealed_sets |-> [p \in 1..n |-> laid[p].own_revealed_sets],
      other_players |-> [p \in 1..n |-> <<>>],
      latest_history |-> [p \in 1..n |-> EmptyHistory],
      current_gamemaster_updates |-> EmptyDict,
      current_time |-> 0, round_number |-> 0]

\* self.current_time += self.get_timestep(); self.round_number += 1
AdvanceClock(g) ==
  [g EXCEPT !.current_time = @ + timestep_seconds, !.round_number = @ + 1]

\* simulate_one_round for the move stored in actions
GoFish_simulate_one_round(g) ==
  LET asking == g.current_asking_player
      move == Get(g.actions, asking, EmptyMove)
      target == move.request_card_from_player_name
      requested_rank == move.requested_card
  IN IF asking \notin DOMAIN g.actions THEN g
     ELSE IF target \notin GoFishPlayers(g) THEN g
     ELSE
       LET matching_cards == CardsOfRank(g.hand[target], requested_rank)
           given == [g.hand EXCEPT ![target] = RemoveEach(@, matching_cards)]
           taken == [given EXCEPT ![asking] = @ \o matching_cards]
           draws == matching_cards = <<>> /\ g.draw_pile # <<>>
           drawn_card == g.draw_pile[Len(g.draw_pile)]
           fished == IF draws
                     THEN [g.hand EXCEPT ![asking] = Append(@, drawn_card)]
                     ELSE g.hand
           before == IF matching_cards # <<>> THEN taken ELSE fished
           laid == IF matching_cards # <<>> \/ draws
                   THEN LaySets(RanksInOrder(before[asking]), before[asking],
                                g.own_revealed_sets[asking], <<>>)
                   ELSE [hand |-> before[asking],
                         own_revealed_sets |-> g.own_revealed_sets[asking],
                         removed |-> <<>>]
           asking_player_new_cards ==
             IF matching_cards # <<>> THEN matching_cards
             ELSE IF draws THEN <<drawn_card>> ELSE <<>>
           g1 == [g EXCEPT
                    !.hand = [before EXCEPT ![asking] = laid.hand],
                    !.own_revealed_sets[asking] = laid.own_revealed_sets,
                    !.draw_pile = IF draws THEN SubSeq(@, 1, Len(@) - 1) ELSE @,
                    !.current_asking_player =
                       IF matching_cards # <<>> THEN asking
                       ELSE (asking % g.n_players) + 1]
           requested == (asking :> <<requested_rank>>)
           received == IF matching_cards # <<>> THEN (asking :> matching_cards)
                       ELSE EmptyDict
           MessageFor(p) ==
             GoFishUpdateMessage(g.current_time,
                           IF p = asking THEN asking_player_new_cards ELSE <<>>,
                           IF p = asking THEN laid.removed
                           ELSE IF p = target THEN matching_cards ELSE <<>>,
                           AllNames(g), HandSizesFor(g1, p), requested, received)
       IN AdvanceClock([g1 EXCEPT !.current_gamemaster_updates =
                                    [p \in GoFishPlayers(g) |-> MessageFor(p)]])

\* get_game_ending: the winner's name, or 0 for None
GoFish_get_game_ending(g) ==
  LET most == CHOOSE p \in GoFishPlayers(g) :
                /\ \A q \in GoFishPlayers(g) :
                     Len(g.own_revealed_sets[q]) <= Len(g.own_revealed_sets[p])
                /\ \A q \in 1..(p - 1) :
                     Len(g.own_revealed_sets[q]) < Len(g.own_revealed_sets[p])
  IN IF \E p \in GoFishPlayers(g) : g.hand[p] = <<>> THEN most ELSE 0

\* ------------------------------------------------------------------------
\* Go Fish: run_simulation
\* ------------------------------------------------------------------------
notGoFish == <<gameVars, calc>>

InitGoFish ==
  /\ scenario = "research"
  /\ Setup
  /\ calc = IdleCalc
  /\ \E n \in 1..MaxGoFishPlayers, deck \in Shuffles :
       \E initial_player \in 1..n :
         gofish = GoFish_get_game_master(n, deck, initial_player)

\* Initial update messages: create, deliver and store, player by player
GoFish_InitialBroadcast ==
  /\ gofish.pc = "start"
  /\ LET p == gofish.turn
         update_msg == GoFish_create_player_update_messages(gofish, p)
         g1 == GoFishPlayer_update_state(gofish, p, update_msg)
     IN gofish' =
          [g1 EXCEPT
             !.current_gamemaster_updates = (p :> update_msg) @@ @,
             !.turn = IF p < gofish.n_players THEN p + 1 ELSE 1,
             !.pc = IF p < gofish.n_players THEN "start" ELSE "loop"]
  /\ UNCHANGED notGoFish

\* while round_count < max_rounds: round_count += 1; the asking player's move
GoFish_GetPlayerMove ==
  /\ gofish.pc = "loop"
  /\ gofish.round_count < GoFish_max_rounds
  /\ gofish.round_count < MaxGoFishRounds
  /\ LET asking == gofish.current_asking_player
     IN gofish' =
          [gofish EXCEPT
             !.round_count = @ + 1,
             !.actions = IF asking \in GoFishPlayers(gofish)
                         THEN (asking :> GoFish_get_player_move(gofish, asking))
                         ELSE EmptyDict,
             !.pc = "simulate"]
  /\ UNCHANGED notGoFish

GoFish_SimulateOneRound ==
  /\ gofish.pc = "simulate"
  /\ gofish' = [GoFish_simulate_one_round(gofish) EXCEPT !.pc = "deliver", !.turn = 1]
  /\ UNCHANGED notGoFish

\* for player in self.players: player.update_state(current_gamemaster_updates[...])
GoFish_UpdateState ==
  /\ gofish.pc = "deliver"
  /\ LET p == gofish.turn
         g1 == IF p \in DOMAIN gofish.current_gamemaster_updates
               THEN GoFishPlayer_update_state(gofish, p,
                                              gofish.current_gamemaster_updates[p])
               ELSE gofish
     IN gofish' =
          [g1 EXCEPT
             !.turn = IF p < gofish.n_players THEN p + 1 ELSE 1,
             !.pc = IF p < gofish.n_players THEN "deliver" ELSE "ending"]
  /\ UNCHANGED notGoFish

\* winner = self.get_game_ending(); if winner: break
GoFish_GameEnding ==
  /\ gofish.pc = "ending"
  /\ gofish' = [gofish EXCEPT
                  !.pc = IF GoFish_get_game_ending(gofish) # 0 THEN "done" ELSE "loop"]
  /\ UNCHANGED notGoFish

NextGoFish ==
  \/ GoFish_InitialBroadcast
  \/ GoFish_GetPlayerMove
  \/ GoFish_SimulateOneRound
  \/ GoFish_UpdateState
  \/ GoFish_GameEnding

SpecGoFish == InitGoFish /\ [][NextGoFish]_vars

\* ------------------------------------------------------------------------
\* C37: in Go Fish, after dealing and after every step of the run (the round
\* itself and each delivery of an update message) every card of the deck is
\* in exactly one place: the draw pile, one player's hand or one revealed set.
\* ------------------------------------------------------------------------
RECURSIVE FlattenAll(_)
FlattenAll(seqs) == IF seqs = <<>> THEN <<>> ELSE Head(seqs) \o FlattenAll(Tail(seqs))

\* every card held anywhere, with repetition
CardsHeld(g) ==
  g.draw_pile
    \o FlattenAll([p \in 1..g.n_players |-> g.hand[p]])
    \o FlattenAll([p \in 1..g.n_players |-> FlattenAll(g.own_revealed_sets[p])])

C37_CardsPartitioned ==
  LET held == CardsHeld(gofish)
  IN /\ Len(held) = MaxRanks * NumSuits
     /\ \A i \in 1..Len(create_deck) :
          Cardinality({k \in DOMAIN held : held[k] = create_deck[i]}) = 1

\* a set has been laid down during a round and its message delivered
C37_Witness ==
  /\ gofish.pc = "ending"
  /\ gofish.round_number >= 1
  /\ \E p \in GoFishPlayers(gofish) :
       /\ gofish.current_gamemaster_updates[p].removed_cards # <<>>
       /\ gofish.current_gamemaster_updates[p].new_cards # <<>>
       /\ gofish.own_revealed_sets[p] # <<>>

\* ------------------------------------------------------------------------
\* C38: every call of simulate_one_round in the Go Fish driver loop, whatever
\* move get_player_move returned, raises round_number by one and moves
\* current_time one timestep forward.
\* ------------------------------------------------------------------------
C38_EveryRoundAdvances ==
  [][GoFish_SimulateOneRound =>
       /\ gofish'.round_number = gofish.round_number + 1
       /\ gofish'.current_time = gofish.current_time + timestep_seconds]_vars

====
